---- MODULE Spec2Model ----
(***************************************************************************)
(* Validation orchestration and reviewer workflow of the ESG data-quality  *)
(* backend: the relational store (normalized_data, validation_results,     *)
(* audit_log), the SQLAlchemy session of the ValidationService with its    *)
(* uncommitted deletes, the ValidationEngine rule evaluation, and the      *)
(* service operations that read and write the store.                       *)
(***************************************************************************)
EXTENDS Integers, Sequences, FiniteSets, Bags, TLC

\* ------------------------------------------------------------------------
\* Bounds of the model
\* ------------------------------------------------------------------------
MaxRecords == 1        \* rows of normalized_data ever inserted (Spec)
MaxResults == 3        \* rows of validation_results ever inserted (Spec)
MaxAudit == 4          \* audit_log rows written for uploads
MaxReviews == 2        \* audit_log rows written for reviewer actions
MaxBulk == 2           \* length of the id list handed to bulk_review_errors
MaxReviewRecords == 3  \* rows of normalized_data in the stores of SpecReview

Uploads == {1, 2}
Indicators == {"scope_1", "total"}
Values == {1, 3}
Industries == {"cement_industry", "steel_industry"}
Reviewers == {"alice"}
Notes == {"false positive"}
Reasons == {"accepted"}
None == "None"

\* (upload, indicator, value) triples the normalization run supplies
RawRows == {<<1, "scope_1", 3>>, <<1, "total", 3>>, <<2, "scope_1", 1>>}
\* ... and the triples of the stores SpecReview starts from
ReviewRows == {<<1, "scope_1", 3>>, <<1, "total", 3>>, <<2, "scope_1", 3>>}

VARIABLES
    normalized_data,     \* committed rows of table normalized_data
    validation_results,  \* committed rows of table validation_results
    audit_log,           \* committed rows of table audit_log (a bag)
    pending,             \* ids of validation_results rows deleted in the
                         \* service session's open transaction
    next_result_id,      \* primary keys handed out so far (uuid4 is fresh)
    last,                \* the last service call and how it returned
    requests,            \* reviewer requests running in sessions of their
                         \* own, each with its position in the handler
    returned             \* what the last call of the normalization layer
                         \* returned or raised

vars == <<normalized_data, validation_results, audit_log, pending,
          next_result_id, last, requests, returned>>

\* The reviewer requests that can be in flight at once, and a request slot
\* that holds no call
Sessions == {"s1", "s2"}
Idle == [pc |-> "idle", op |-> "none", result_id |-> 0, reviewer |-> "",
         notes |-> "", order |-> 0, status |-> "none"]

\* Nothing returned yet by the normalization layer
NoCall == [call |-> "none"]

\* What a call of the ValidationService leaves alone
ServiceFrame == <<requests, returned>>

\* Ids a caller passes: every id in the table, and one id that is in no table
KnownResultIds == {o.id : o \in validation_results} \cup {next_result_id}
KnownDataIds == {r.id : r \in normalized_data}
                    \cup {Cardinality(normalized_data) + 1}

\* ------------------------------------------------------------------------
\* Sequence helpers
\* ------------------------------------------------------------------------
RECURSIVE Flatten(_)
Flatten(ss) == IF ss = <<>> THEN <<>> ELSE Head(ss) \o Flatten(Tail(ss))

RECURSIVE SumSeq(_)
SumSeq(s) == IF s = <<>> THEN 0 ELSE Head(s) + SumSeq(Tail(s))

RECURSIVE Dedupe(_)
Dedupe(s) ==
    IF s = <<>> THEN <<>>
    ELSE LET r == Dedupe(SubSeq(s, 1, Len(s) - 1))
             x == s[Len(s)]
         IN IF \E i \in 1..Len(r) : r[i] = x THEN r ELSE Append(r, x)

RECURSIVE RowsById(_)
RowsById(rows) ==
    IF rows = {} THEN <<>>
    ELSE LET m == CHOOSE r \in rows : \A q \in rows : r.id <= q.id
         IN <<m>> \o RowsById(rows \ {m})

Abs(x) == IF x < 0 THEN -x ELSE x

\* ------------------------------------------------------------------------
\* Rule catalog (ValidationEngine.rules, in file order)
\* ------------------------------------------------------------------------
Rule(bucket, name, indicator, type, severity, params) ==
    [bucket |-> bucket, rule_name |-> name, indicator |-> indicator,
     validation_type |-> type, severity |-> severity, parameters |-> params]

\* min and max are <<>> when the rule leaves the bound out, <<b>> otherwise;
\* z_num/z_den is z_score_threshold and tol_num/tol_den the tolerance
Params(min, max, znum, zden, fields, tnum, tden, relationship) ==
    [min |-> min, max |-> max, z_num |-> znum, z_den |-> zden,
     fields |-> fields, tol_num |-> tnum, tol_den |-> tden,
     relationship |-> relationship]

RuleList ==
    << Rule("cement_industry", "cement_emission_range", "scope_1", "range",
            "error", Params(<<>>, <<2>>, 0, 1, <<>>, 0, 1, None)),
       Rule("cement_industry", "cement_total_advisory", "total", "range",
            "warning", Params(<<>>, <<2>>, 0, 1, <<>>, 0, 1, None)),
       Rule("cross_industry", "statistical_outlier", "", "outlier",
            "warning", Params(<<>>, <<>>, 1, 1, <<>>, 0, 1, None)),
       Rule("cross_field", "scope_sum", "", "cross_field",
            "error", Params(<<>>, <<>>, 0, 1, <<"scope_1", "total">>, 2, 100, "sum")) >>

rules(bucket) == SelectSeq(RuleList, LAMBDA r : r.bucket = bucket)

\* rules_index[industry] and rules_index[industry:indicator]
rules_index_industry(industry) == rules(industry)
rules_index_indicator(industry, indicator) ==
    SelectSeq(rules(industry),
              LAMBDA r : r.indicator # "" /\ r.indicator = indicator)

InSeq(x, s) == \E i \in 1..Len(s) : s[i] = x

_get_applicable_rules(industry, indicator) ==
    LET exact == rules_index_indicator(industry, indicator)
    IN exact \o SelectSeq(rules_index_industry(industry),
                          LAMBDA r : (r.indicator = indicator \/ r.indicator = "")
                                     /\ ~InSeq(r, exact))

\* ------------------------------------------------------------------------
\* ValidationEngine checks
\* ------------------------------------------------------------------------
Failure(data_id, rule) ==
    [data_id |-> data_id, rule_name |-> rule.rule_name, is_valid |-> FALSE,
     severity |-> rule.severity]

range_check(value, rule, data_id) ==
    LET min_val == rule.parameters.min
        max_val == rule.parameters.max
    IN IF min_val # <<>> /\ value < min_val[1] THEN <<Failure(data_id, rule)>>
       ELSE IF max_val # <<>> /\ value > max_val[1] THEN <<Failure(data_id, rule)>>
       ELSE <<>>

_execute_validation(record, rule) ==
    IF rule.validation_type = "range"
    THEN range_check(record.value, rule, record.id)
    ELSE <<>>

\* The rules validate_record runs for a record: those of the industry,
\* or those of cross_industry when none of the industry applies
applicable_rules(industry, indicator) ==
    IF _get_applicable_rules(industry, indicator) = <<>>
    THEN _get_applicable_rules("cross_industry", indicator)
    ELSE _get_applicable_rules(industry, indicator)

validate_record(record, industry) ==
    LET applicable == applicable_rules(industry, record.indicator)
    IN Flatten([i \in 1..Len(applicable) |->
                    _execute_validation(record, applicable[i])])

outlier_detection(values, rule) ==
    LET n == Len(values)
        s == SumSeq([i \in 1..n |-> values[i][2]])
        q == SumSeq([i \in 1..n |-> values[i][2] * values[i][2]])
        zn == rule.parameters.z_num
        zd == rule.parameters.z_den
        \* n(n-1) * stdev^2 with stdev the sample standard deviation
        nvar == n * q - s * s
        Flagged(v) == (n * v - s) * (n * v - s) * (n - 1) * zd * zd
                          > zn * zn * n * nvar
    IN IF n < 3 THEN <<>>
       ELSE IF nvar = 0 THEN <<>>
       ELSE Flatten([i \in 1..n |->
                IF Flagged(values[i][2])
                THEN <<Failure(values[i][1], rule)>> ELSE <<>>])

_get_outlier_rule(industry) ==
    SelectSeq(rules("cross_industry"), LAMBDA r : r.validation_type = "outlier")

_validate_sum_relationship(records, rule) ==
    LET fields == rule.parameters.fields
        tn == rule.parameters.tol_num
        td == rule.parameters.tol_den
        \* records_by_indicator[key]: the last record carrying the indicator
        Has(key) == \E i \in 1..Len(records) : records[i].indicator = key
        ByInd(key) == LET j == CHOOSE i \in 1..Len(records) :
                                   /\ records[i].indicator = key
                                   /\ \A k \in (i + 1)..Len(records) :
                                          records[k].indicator # key
                      IN records[j]
        components == SelectSeq(SubSeq(fields, 1, Len(fields) - 1), Has)
        total_field == fields[Len(fields)]
        component_sum == SumSeq([i \in 1..Len(components) |->
                                     ByInd(components[i]).value])
        total_value == ByInd(total_field).value
        data_id == IF components = <<>> THEN ByInd(total_field).id
                   ELSE ByInd(components[1]).id
        exceeds == IF total_value = 0 THEN Abs(component_sum) * td > tn
                   ELSE IF total_value > 0
                        THEN Abs(component_sum - total_value) * td > tn * total_value
                        ELSE FALSE
    IN IF Len(fields) < 2 THEN <<>>
       ELSE IF ~Has(total_field) THEN <<>>
       ELSE IF exceeds THEN <<Failure(data_id, rule)>>
       ELSE <<>>

validate_cross_field_consistency(records) ==
    LET cf == rules("cross_field")
    IN Flatten([i \in 1..Len(cf) |->
           IF cf[i].parameters.relationship = "sum"
           THEN _validate_sum_relationship(records, cf[i]) ELSE <<>>])

\* The dict data_id -> results of validate_batch, flattened in key order
validate_batch(records, industry) ==
    LET per_record == Flatten([i \in 1..Len(records) |->
                                   validate_record(records[i], industry)])
        orule == _get_outlier_rule(industry)
        outliers == IF orule # <<>> /\ Len(records) >= 3
                    THEN outlier_detection(
                             [i \in 1..Len(records) |->
                                  <<records[i].id, records[i].value>>],
                             orule[1])
                    ELSE <<>>
        all == per_record \o outliers \o validate_cross_field_consistency(records)
        keys == Dedupe([i \in 1..Len(all) |-> all[i].data_id])
    IN Flatten([k \in 1..Len(keys) |->
                    SelectSeq(all, LAMBDA r : r.data_id = keys[k])])

\* ------------------------------------------------------------------------
\* The store as the service's session sees it
\* ------------------------------------------------------------------------
\* Column defaults of validation_results.reviewed / reviewer_notes
ColumnDefaults == [reviewed |-> FALSE, reviewer_notes |-> None]

\* Rows the session's queries return: committed rows minus the rows the
\* session's open transaction has deleted
View == {o \in validation_results : o.id \notin pending}

NormalizedOf(upload_id) == {r \in normalized_data : r.upload_id = upload_id}

\* query(DBValidationResult).join(NormalizedData).filter(upload_id == ...)
JoinUpload(rows, upload_id) ==
    {o \in rows : \E r \in normalized_data :
                      r.id = o.data_id /\ r.upload_id = upload_id}

AuditEntry(entity_id, entity_type, actor) ==
    [entity_id |-> entity_id, entity_type |-> entity_type, actor |-> actor]

AuditCount(entity_type) ==
    BagCardinality([e \in {x \in BagToSet(audit_log) :
                              x.entity_type = entity_type} |-> audit_log[e]])

Call(op, status, target) == [op |-> op, status |-> status, target |-> target]

\* round(x, 2) of x = num / den * 100, in hundredths of a percent
Round2(num, den) ==
    LET n == num * 10000
        q == n \div den
        r == n % den
    IN IF 2 * r < den THEN q
       ELSE IF 2 * r > den THEN q + 1
       ELSE IF q % 2 = 0 THEN q ELSE q + 1

\* ------------------------------------------------------------------------
\* ValidationService queries
\* ------------------------------------------------------------------------
\* Mutant: the reviewed filter is inverted
unreviewed_errors_of_inverted(rows, upload_id) ==
    {o \in JoinUpload(rows, upload_id) :
        o.severity = "error" /\ o.is_valid = FALSE /\ o.reviewed = TRUE}

\* Mutant: the severity filter is left out
unreviewed_errors_of_any_severity(rows, upload_id) ==
    {o \in JoinUpload(rows, upload_id) :
        o.is_valid = FALSE /\ o.reviewed = FALSE}

unreviewed_errors_of(rows, upload_id) ==
    {o \in JoinUpload(rows, upload_id) :
        o.severity = "error" /\ o.is_valid = FALSE /\ o.reviewed = FALSE}

get_unreviewed_errors(upload_id) == unreviewed_errors_of(View, upload_id)

\* Mutant: unreviewed error rows are counted, not the distinct records
final_pass_rate_of_rows(rows, upload_id) ==
    LET total_records == Cardinality(NormalizedOf(upload_id))
        records_passing == total_records
                           - Cardinality(unreviewed_errors_of(rows, upload_id))
    IN IF total_records = 0 THEN 10000
       ELSE Round2(records_passing, total_records)

\* calculate_final_pass_rate over a given set of validation_results rows
final_pass_rate_of(rows, upload_id) ==
    LET total_records == Cardinality(NormalizedOf(upload_id))
        records_with_unreviewed_errors ==
            {o.data_id : o \in unreviewed_errors_of(rows, upload_id)}
        records_passing == total_records
                           - Cardinality(records_with_unreviewed_errors)
    IN IF total_records = 0 THEN 10000
       ELSE Round2(records_passing, total_records)

calculate_final_pass_rate(upload_id) == final_pass_rate_of(View, upload_id)

\* Mutant: active warnings block the export as well
get_review_summary_warnings_block(upload_id) ==
    LET all_results == JoinUpload(View, upload_id)
        total_errors == Cardinality({r \in all_results :
                            r.severity = "error" /\ ~r.is_valid})
        reviewed_errors == Cardinality({r \in all_results :
                            r.severity = "error" /\ ~r.is_valid /\ r.reviewed})
        unreviewed_errors == total_errors - reviewed_errors
        total_warnings == Cardinality({r \in all_results :
                            r.severity = "warning" /\ ~r.is_valid})
        suppressed_warnings == Cardinality({r \in all_results :
                            r.severity = "warning" /\ ~r.is_valid /\ r.reviewed})
    IN [total_errors |-> total_errors,
        reviewed_errors |-> reviewed_errors,
        unreviewed_errors |-> unreviewed_errors,
        total_warnings |-> total_warnings,
        suppressed_warnings |-> suppressed_warnings,
        active_warnings |-> total_warnings - suppressed_warnings,
        ready_for_export |-> (unreviewed_errors = 0
                              /\ total_warnings - suppressed_warnings = 0),
        final_pass_rate |-> calculate_final_pass_rate(upload_id)]

get_review_summary(upload_id) ==
    LET all_results == JoinUpload(View, upload_id)
        total_errors == Cardinality({r \in all_results :
                            r.severity = "error" /\ ~r.is_valid})
        reviewed_errors == Cardinality({r \in all_results :
                            r.severity = "error" /\ ~r.is_valid /\ r.reviewed})
        unreviewed_errors == total_errors - reviewed_errors
        total_warnings == Cardinality({r \in all_results :
                            r.severity = "warning" /\ ~r.is_valid})
        suppressed_warnings == Cardinality({r \in all_results :
                            r.severity = "warning" /\ ~r.is_valid /\ r.reviewed})
    IN [total_errors |-> total_errors,
        reviewed_errors |-> reviewed_errors,
        unreviewed_errors |-> unreviewed_errors,
        total_warnings |-> total_warnings,
        suppressed_warnings |-> suppressed_warnings,
        active_warnings |-> total_warnings - suppressed_warnings,
        ready_for_export |-> (unreviewed_errors = 0),
        final_pass_rate |-> calculate_final_pass_rate(upload_id)]

\* ------------------------------------------------------------------------
\* ValidationService writes, as functions of the store
\* ------------------------------------------------------------------------
\* save_validation_results: rows inserted with fresh primary keys, commit,
\* then one audit entry for the upload, commit
NewRows(results, first_id) ==
    {[id |-> first_id + i - 1,
      data_id |-> results[i].data_id,
      rule_name |-> results[i].rule_name,
      is_valid |-> results[i].is_valid,
      severity |-> IF results[i].severity = "error" THEN "error" ELSE "warning",
      reviewed |-> ColumnDefaults.reviewed,
      reviewer_notes |-> ColumnDefaults.reviewer_notes] : i \in 1..Len(results)}

\* Mutant: one validate_batch over all records of the upload
validation_results_of_global(records, industry) ==
    validate_batch(records, industry)

\* validate_upload's evaluation: records grouped by indicator in order of
\* first appearance, validate_batch per group, results concatenated
validation_results_of(records, industry) ==
    LET groups == Dedupe([i \in 1..Len(records) |-> records[i].indicator])
    IN Flatten([g \in 1..Len(groups) |->
           validate_batch(SelectSeq(records,
                                    LAMBDA r : r.indicator = groups[g]),
                          industry)])

all_validation_results(upload_id, industry) ==
    validation_results_of(RowsById(NormalizedOf(upload_id)), industry)

\* Mutant: the notes are stored but the reviewed flag is not set
MarkRow_notes_only(o, notes) == [o EXCEPT !.reviewer_notes = notes]

\* Mutant: the reviewed flag is toggled instead of set
MarkRow_toggle(o, notes) ==
    [o EXCEPT !.reviewed = ~o.reviewed, !.reviewer_notes = notes]

\* mark_error_as_reviewed on a store [vr, al]: the row's new fields
MarkRow(o, notes) == [o EXCEPT !.reviewed = TRUE, !.reviewer_notes = notes]

\* Mutant: every outcome of the target's measurement is marked
Marked_by_record(store, result_id, reviewer, notes) ==
    LET target == CHOOSE o \in store.vr : o.id = result_id
    IN [vr |-> {IF o.data_id = target.data_id THEN MarkRow(o, notes) ELSE o :
                    o \in store.vr},
        al |-> store.al (+) SetToBag({AuditEntry(result_id, "validation_result",
                                                 reviewer)})]

Marked(store, result_id, reviewer, notes) ==
    [vr |-> {IF o.id = result_id THEN MarkRow(o, notes) ELSE o : o \in store.vr},
     al |-> store.al (+) SetToBag({AuditEntry(result_id, "validation_result",
                                              reviewer)})]

Suppressed(reason) == "SUPPRESSED: " \o reason

RECURSIVE BulkMarked(_, _, _, _)
BulkMarked(store, result_ids, reviewer, notes) ==
    IF result_ids = <<>> THEN store
    ELSE LET id == Head(result_ids)
             found == \E o \in store.vr : o.id = id
         IN BulkMarked(IF found THEN Marked(store, id, reviewer, notes)
                       ELSE store,
                       Tail(result_ids), reviewer, notes)

\* ------------------------------------------------------------------------
\* Initial state: empty tables, no open transaction
\* ------------------------------------------------------------------------
Init ==
    /\ normalized_data = {}
    /\ validation_results = {}
    /\ audit_log = EmptyBag
    /\ pending = {}
    /\ next_result_id = 1
    /\ last = Call("none", "ok", 0)
    /\ requests = [s \in Sessions |-> Idle]
    /\ returned = NoCall

\* ------------------------------------------------------------------------
\* Operations
\* ------------------------------------------------------------------------
\* NormalizationService.save_normalized_data: one indicator's measurements
\* of an upload are inserted and committed
save_normalized_data(upload_id, indicator, values) ==
    /\ Cardinality(normalized_data) + Len(values) <= MaxRecords
    /\ normalized_data' = normalized_data \cup
           {[id |-> Cardinality(normalized_data) + i,
             upload_id |-> upload_id,
             indicator |-> indicator,
             value |-> values[i]] : i \in 1..Len(values)}
    /\ last' = Call("save_normalized_data", "ok", upload_id)
    /\ UNCHANGED <<validation_results, audit_log, pending, next_result_id>>

\* Mutant: the run starts without checking that the upload has measurements
validate_upload_unchecked(upload_id, industry) ==
    LET results == all_validation_results(upload_id, industry)
        entry == SetToBag({AuditEntry(upload_id, "upload",
                                      "validation_service")})
    IN /\ next_result_id + Len(results) - 1 <= MaxResults
       /\ AuditCount("upload") + (IF results # <<>> THEN 2 ELSE 1) <= MaxAudit
       /\ validation_results' = View \cup NewRows(results, next_result_id)
       /\ audit_log' = IF results # <<>>
                       THEN audit_log (+) entry (+) entry
                       ELSE audit_log (+) entry
       /\ pending' = {}
       /\ next_result_id' = next_result_id + Len(results)
       /\ last' = Call("validate_upload", "ok", upload_id)
       /\ UNCHANGED normalized_data

\* Mutant: the upload's earlier outcomes are purged before the insert
validate_upload_replacing(upload_id, industry) ==
    IF NormalizedOf(upload_id) = {}
    THEN /\ last' = Call("validate_upload", "ValueError", upload_id)
         /\ UNCHANGED <<normalized_data, validation_results, audit_log,
                        pending, next_result_id>>
    ELSE LET results == all_validation_results(upload_id, industry)
             entry == SetToBag({AuditEntry(upload_id, "upload",
                                           "validation_service")})
         IN /\ next_result_id + Len(results) - 1 <= MaxResults
            /\ AuditCount("upload") + (IF results # <<>> THEN 2 ELSE 1) <= MaxAudit
            /\ validation_results' = (View \ JoinUpload(View, upload_id))
                                     \cup NewRows(results, next_result_id)
            /\ audit_log' = IF results # <<>>
                            THEN audit_log (+) entry (+) entry
                            ELSE audit_log (+) entry
            /\ pending' = {}
            /\ next_result_id' = next_result_id + Len(results)
            /\ last' = Call("validate_upload", "ok", upload_id)
            /\ UNCHANGED normalized_data

validate_upload(upload_id, industry) ==
    IF NormalizedOf(upload_id) = {}
    THEN /\ last' = Call("validate_upload", "ValueError", upload_id)
         /\ UNCHANGED <<normalized_data, validation_results, audit_log,
                        pending, next_result_id>>
    ELSE LET results == all_validation_results(upload_id, industry)
             entry == SetToBag({AuditEntry(upload_id, "upload",
                                           "validation_service")})
         IN /\ next_result_id + Len(results) - 1 <= MaxResults
            /\ AuditCount("upload") + (IF results # <<>> THEN 2 ELSE 1) <= MaxAudit
            \* save_validation_results (only if there are results), then
            \* _log_validation_audit; every commit flushes the transaction
            /\ validation_results' = View \cup NewRows(results, next_result_id)
            /\ audit_log' = IF results # <<>>
                            THEN audit_log (+) entry (+) entry
                            ELSE audit_log (+) entry
            /\ pending' = {}
            /\ next_result_id' = next_result_id + Len(results)
            /\ last' = Call("validate_upload", "ok", upload_id)
            /\ UNCHANGED <<normalized_data>>

revalidate_record(data_id, industry) ==
    IF ~\E r \in normalized_data : r.id = data_id
    THEN /\ last' = Call("revalidate_record", "ValueError", data_id)
         /\ UNCHANGED <<normalized_data, validation_results, audit_log,
                        pending, next_result_id>>
    ELSE LET record == CHOOSE r \in normalized_data : r.id = data_id
             results == validate_record(record, industry)
             deleted == {o.id : o \in {v \in View : v.data_id = data_id}}
         IN /\ next_result_id + Len(results) - 1 <= MaxResults
            /\ IF results = <<>>
               THEN \* the DELETE stays in the open transaction
                    /\ pending' = pending \cup deleted
                    /\ UNCHANGED <<validation_results, audit_log>>
               ELSE \* save_validation_results commits DELETE and INSERT
                    /\ AuditCount("upload") + 1 <= MaxAudit
                    /\ validation_results' =
                           {o \in View : o.id \notin deleted}
                           \cup NewRows(results, next_result_id)
                    /\ audit_log' = audit_log (+)
                           SetToBag({AuditEntry(record.upload_id, "upload",
                                                "validation_service")})
                    /\ pending' = {}
            /\ next_result_id' = next_result_id + Len(results)
            /\ last' = Call("revalidate_record", "ok", data_id)
            /\ UNCHANGED <<normalized_data>>

mark_error_as_reviewed(result_id, reviewer, notes) ==
    IF ~\E o \in View : o.id = result_id
    THEN /\ last' = Call("mark_error_as_reviewed", "ValueError", result_id)
         /\ UNCHANGED <<normalized_data, validation_results, audit_log,
                        pending, next_result_id>>
    ELSE LET after == Marked([vr |-> View, al |-> audit_log],
                             result_id, reviewer, notes)
         IN /\ AuditCount("validation_result") + 1 <= MaxReviews
            /\ validation_results' = after.vr
            /\ audit_log' = after.al
            /\ pending' = {}
            /\ last' = Call("mark_error_as_reviewed", "ok", result_id)
            /\ UNCHANGED <<normalized_data, next_result_id>>

\* Mutant: the severity of the target is not checked
suppress_warning_any_severity(result_id, reason, reviewer) ==
    IF ~\E o \in View : o.id = result_id
    THEN /\ last' = Call("suppress_warning", "ValueError", result_id)
         /\ UNCHANGED <<normalized_data, validation_results, audit_log,
                        pending, next_result_id>>
    ELSE LET after == Marked([vr |-> View, al |-> audit_log],
                             result_id, reviewer, Suppressed(reason))
         IN /\ AuditCount("validation_result") + 1 <= MaxReviews
            /\ validation_results' = after.vr
            /\ audit_log' = after.al
            /\ pending' = {}
            /\ last' = Call("suppress_warning", "ok", result_id)
            /\ UNCHANGED <<normalized_data, next_result_id>>

suppress_warning(result_id, reason, reviewer) ==
    IF ~\E o \in View : o.id = result_id
    THEN /\ last' = Call("suppress_warning", "ValueError", result_id)
         /\ UNCHANGED <<normalized_data, validation_results, audit_log,
                        pending, next_result_id>>
    ELSE LET validation_result == CHOOSE o \in View : o.id = result_id
         IN IF validation_result.severity = "error"
            THEN /\ last' = Call("suppress_warning", "ValueError", result_id)
                 /\ UNCHANGED <<normalized_data, validation_results,
                                audit_log, pending, next_result_id>>
            ELSE LET after == Marked([vr |-> View, al |-> audit_log],
                                     result_id, reviewer, Suppressed(reason))
                 IN /\ AuditCount("validation_result") + 1 <= MaxReviews
                    /\ validation_results' = after.vr
                    /\ audit_log' = after.al
                    /\ pending' = {}
                    /\ last' = Call("suppress_warning", "ok", result_id)
                    /\ UNCHANGED <<normalized_data, next_result_id>>

bulk_review_errors(result_ids, reviewer, notes) ==
    LET found == {result_ids[i] : i \in 1..Len(result_ids)}
                 \cap {o.id : o \in View}
        count == Cardinality({i \in 1..Len(result_ids) : result_ids[i] \in found})
        after == BulkMarked([vr |-> View, al |-> audit_log],
                            result_ids, reviewer, notes)
    IN /\ AuditCount("validation_result") + count <= MaxReviews
       /\ IF found = {}
          THEN UNCHANGED <<validation_results, audit_log, pending>>
          ELSE /\ validation_results' = after.vr
               /\ audit_log' = after.al
               /\ pending' = {}
       /\ last' = Call("bulk_review_errors", "ok", 0)
       /\ UNCHANGED <<normalized_data, next_result_id>>

\* get_db: the request's session is closed, its open transaction rolled back
close_session ==
    /\ pending # {}
    /\ pending' = {}
    /\ UNCHANGED <<normalized_data, validation_results, audit_log,
                   next_result_id, last>>

ValueLists == UNION {[1..n -> Values] : n \in 1..2}
IdLists == UNION {[1..n -> KnownResultIds] : n \in 1..MaxBulk}

Next ==
    \/ \E u \in Uploads, ind \in Indicators, vs \in ValueLists :
           /\ \A i \in 1..Len(vs) : <<u, ind, vs[i]>> \in RawRows
           /\ save_normalized_data(u, ind, vs)
           /\ UNCHANGED ServiceFrame
    \/ \E u \in Uploads, industry \in Industries :
           validate_upload(u, industry) /\ UNCHANGED ServiceFrame
    \/ \E d \in KnownDataIds, industry \in Industries :
           revalidate_record(d, industry) /\ UNCHANGED ServiceFrame
    \/ \E id \in KnownResultIds, rv \in Reviewers, n \in Notes :
           mark_error_as_reviewed(id, rv, n) /\ UNCHANGED ServiceFrame
    \/ \E id \in KnownResultIds, rs \in Reasons, rv \in Reviewers :
           suppress_warning(id, rs, rv) /\ UNCHANGED ServiceFrame
    \/ \E ids \in IdLists, rv \in Reviewers, n \in Notes :
           bulk_review_errors(ids, rv, n) /\ UNCHANGED ServiceFrame
    \/ close_session /\ UNCHANGED ServiceFrame

Spec == Init /\ [][Next]_vars

\* ------------------------------------------------------------------------
\* Stores under review: the store after an upload's measurements were saved
\* and validate_upload ran for the uploads of `runs`, in that order
\* ------------------------------------------------------------------------
ReviewRowLists == UNION {[1..n -> ReviewRows] : n \in 0..MaxReviewRecords}
ReviewRuns == {<<1, 2>>, <<1, 1>>}

RECURSIVE RunAudit(_)
RunAudit(runs) ==
    IF runs = <<>> THEN EmptyBag
    ELSE LET u == Head(runs)
             entry == SetToBag({AuditEntry(u, "upload", "validation_service")})
             rest == RunAudit(Tail(runs))
         IN IF NormalizedOf(u) = {} THEN rest
            ELSE IF all_validation_results(u, "cement_industry") # <<>>
                 THEN rest (+) entry (+) entry
                 ELSE rest (+) entry

InitReview ==
    /\ \E rows \in ReviewRowLists :
           normalized_data = {[id |-> i,
                               upload_id |-> rows[i][1],
                               indicator |-> rows[i][2],
                               value |-> rows[i][3]] : i \in 1..Len(rows)}
    /\ \E runs \in ReviewRuns :
           LET results == Flatten([k \in 1..Len(runs) |->
                              all_validation_results(runs[k], "cement_industry")])
           IN /\ validation_results = NewRows(results, 1)
              /\ audit_log = RunAudit(runs)
              /\ next_result_id = Len(results) + 1
              /\ last = Call("validate_upload",
                             IF NormalizedOf(runs[Len(runs)]) = {}
                             THEN "ValueError" ELSE "ok",
                             runs[Len(runs)])
    /\ pending = {}
    /\ requests = [s \in Sessions |-> Idle]
    /\ returned = NoCall

NextReview ==
    \/ \E id \in KnownResultIds, rv \in Reviewers, n \in Notes :
           mark_error_as_reviewed(id, rv, n) /\ UNCHANGED ServiceFrame
    \/ \E id \in KnownResultIds, rs \in Reasons, rv \in Reviewers :
           suppress_warning(id, rs, rv) /\ UNCHANGED ServiceFrame
    \/ \E ids \in IdLists, rv \in Reviewers, n \in Notes :
           bulk_review_errors(ids, rv, n) /\ UNCHANGED ServiceFrame

SpecReview == InitReview /\ [][NextReview]_vars

\* ------------------------------------------------------------------------
\* Properties
\* ------------------------------------------------------------------------
Row(result_id) == CHOOSE o \in View : o.id = result_id
Exists(result_id) == \E o \in View : o.id = result_id
UnreviewedIds == UNION {{e.id : e \in get_unreviewed_errors(u)} : u \in Uploads}

\* C1: suppress_warning on an outcome of severity error raises ValueError
\* and leaves the outcome (reviewed flag, reviewer_notes) and the audit log
\* as they were; on an outcome of severity warning it sets reviewed = true.
C1_SuppressOnlyWarnings ==
    [][\A id \in KnownResultIds, rs \in Reasons, rv \in Reviewers :
          (suppress_warning(id, rs, rv) /\ Exists(id)) =>
              /\ Row(id).severity = "error" =>
                     /\ last'.status = "ValueError"
                     /\ Row(id) \in validation_results'
                     /\ audit_log' = audit_log
              /\ Row(id).severity = "warning" =>
                     /\ last'.status = "ok"
                     /\ \E o \in validation_results' :
                            o.id = id /\ o.reviewed = TRUE]_vars

C1_Witness ==
    /\ last.op = "suppress_warning"
    /\ last.status = "ValueError"
    /\ \E o \in View : /\ o.id = last.target
                       /\ o.severity = "error"
                       /\ o.reviewed = FALSE

\* C2: after mark_error_as_reviewed(id, ...) has returned successfully, id
\* is in get_unreviewed_errors of no upload, and an error outcome that is
\* reviewed never comes back into get_unreviewed_errors.
C2_MarkedErrorAbsent ==
    /\ [](last.op = "mark_error_as_reviewed" /\ last.status = "ok"
              => last.target \notin UnreviewedIds)
    /\ [][\A o \in View :
              (o.severity = "error" /\ o.id \notin UnreviewedIds)
                  => o.id \notin UnreviewedIds']_vars

C2_Witness ==
    /\ last.op = "mark_error_as_reviewed"
    /\ last.status = "ok"
    /\ \E u \in Uploads : \E o \in JoinUpload(View, u) :
           o.id = last.target /\ o.severity = "error"

\* C3: a successful mark_error_as_reviewed never lowers
\* calculate_final_pass_rate of any upload.
C3_MarkNeverLowersRate ==
    [][\A id \in KnownResultIds, rv \in Reviewers, n \in Notes :
          (mark_error_as_reviewed(id, rv, n) /\ last'.status = "ok") =>
              \A u \in Uploads :
                  calculate_final_pass_rate(u)' >= calculate_final_pass_rate(u)]_vars

\* a mark has just raised the rate of the target's upload
C3_Witness ==
    /\ last.op = "mark_error_as_reviewed"
    /\ last.status = "ok"
    /\ \E u \in Uploads : \E o \in JoinUpload(View, u) :
           /\ o.id = last.target
           /\ final_pass_rate_of((View \ {o}) \cup {[o EXCEPT !.reviewed = FALSE]}, u)
                  < calculate_final_pass_rate(u)

\* total and k of the final pass rate, counted record by record
TotalRecords(u) == Cardinality(NormalizedOf(u))
RecordsWithUnreviewedErrors(u) ==
    Cardinality({m \in NormalizedOf(u) :
                    \E o \in View : /\ o.data_id = m.id
                                    /\ o.severity = "error"
                                    /\ o.reviewed = FALSE})

\* C4 as stated: calculate_final_pass_rate(upload) equals
\* (total - k) / total * 100 exactly (the rate is in hundredths of a percent).
C4_ExactRate ==
    \A u \in Uploads :
        calculate_final_pass_rate(u) * TotalRecords(u)
            = (TotalRecords(u) - RecordsWithUnreviewedErrors(u)) * 10000

\* C4 amended: calculate_final_pass_rate(upload) is (total - k) / total * 100
\* rounded to two decimals (within 0.005 of it), and 100.0 when the upload has
\* no measurement; k counts the distinct measurements with an unreviewed error.
C4_RoundedRate ==
    \A u \in Uploads :
        LET total == TotalRecords(u)
            k == RecordsWithUnreviewedErrors(u)
            rate == calculate_final_pass_rate(u)
        IN IF total = 0 THEN rate = 10000
           ELSE 2 * Abs(rate * total - (total - k) * 10000) <= total

\* an upload with a record that carries two unreviewed error outcomes and a
\* record whose only error is reviewed
C4_Witness ==
    \E u \in Uploads :
        /\ TotalRecords(u) = 3
        /\ RecordsWithUnreviewedErrors(u) \in {1, 2}
        /\ \E o \in JoinUpload(View, u) : o.severity = "error" /\ o.reviewed
        /\ \E o1, o2 \in JoinUpload(View, u) :
               /\ o1.id # o2.id /\ o1.data_id = o2.data_id
               /\ o1.severity = "error" /\ o2.severity = "error"
               /\ ~o1.reviewed /\ ~o2.reviewed

\* C5: the final pass rate does not depend on the warning outcomes: it is
\* the rate of the store with every warning removed and the rate of the
\* store with every warning's reviewed flag flipped, and no suppress_warning
\* step changes it.
C5_WarningsNeverAffectRate ==
    /\ [](\A u \in Uploads :
             /\ final_pass_rate_of(View, u)
                    = final_pass_rate_of({o \in View : o.severity = "error"}, u)
             /\ final_pass_rate_of(View, u)
                    = final_pass_rate_of(
                          {IF o.severity = "warning"
                           THEN [o EXCEPT !.reviewed = ~o.reviewed]
                           ELSE o : o \in View}, u))
    /\ [][\A id \in KnownResultIds, rs \in Reasons, rv \in Reviewers :
              suppress_warning(id, rs, rv) =>
                  \A u \in Uploads :
                      calculate_final_pass_rate(u)' = calculate_final_pass_rate(u)]_vars

C5_Witness ==
    /\ last.op = "suppress_warning"
    /\ last.status = "ok"
    /\ \E u \in Uploads :
           /\ \E o \in JoinUpload(View, u) :
                  o.id = last.target /\ o.severity = "warning" /\ o.reviewed
           /\ \E o \in JoinUpload(View, u) : o.severity = "warning" /\ ~o.reviewed
           /\ calculate_final_pass_rate(u) < 10000

\* C6: ready_for_export of get_review_summary is true exactly when the upload
\* has no error outcome with reviewed = false, exactly when
\* get_unreviewed_errors is empty, whatever the warnings are; and
\* unreviewed_errors is never negative.
C6_ReadyForExport ==
    \A u \in Uploads :
        LET summary == get_review_summary(u)
        IN /\ summary.ready_for_export
                  <=> ~\E o \in JoinUpload(View, u) :
                          o.severity = "error" /\ o.reviewed = FALSE
           /\ summary.ready_for_export <=> get_unreviewed_errors(u) = {}
           /\ summary.unreviewed_errors >= 0
           /\ summary.unreviewed_errors
                  = summary.total_errors - summary.reviewed_errors

C6_Witness ==
    \E u \in Uploads :
        /\ get_review_summary(u).ready_for_export
        /\ get_review_summary(u).total_errors > 0
        /\ get_review_summary(u).active_warnings > 0

\* C7: a row that is reviewed stays reviewed through every service call;
\* the only step that ends it is a successful revalidate_record of the
\* row's record, which removes the row.
C7_ReviewedIsTerminal ==
    [][\A o \in View :
          o.reviewed =>
              \/ \E p \in View' : p.id = o.id /\ p.reviewed
              \/ /\ last'.op = "revalidate_record"
                 /\ last'.status = "ok"
                 /\ last'.target = o.data_id
                 /\ \A p \in View' : p.id # o.id]_vars

\* a reviewed row has come through a later validate_upload of its upload
C7_Witness ==
    /\ last.op = "validate_upload"
    /\ last.status = "ok"
    /\ \E o \in JoinUpload(View, last.target) :
           /\ o.reviewed
           /\ \E p \in JoinUpload(View, last.target) : p.id > o.id

\* C8 as stated: after revalidate_record(data_id, industry) has returned,
\* the committed rows of the record are exactly the rows regenerated by the
\* call, all with reviewed = false; no row of the record from before the
\* call is left, also when the new evaluation yields no failure.
C8_RevalidateReplaces ==
    [][\A d \in KnownDataIds, industry \in Industries :
          (revalidate_record(d, industry) /\ last'.status = "ok") =>
              /\ \A o \in validation_results' :
                     o.data_id = d =>
                         /\ o.id >= next_result_id
                         /\ o.reviewed = FALSE
              /\ Cardinality({o \in validation_results' : o.data_id = d})
                     = next_result_id' - next_result_id]_vars

\* the outcomes of the upload as one validate_upload(u, industry) leaves them
AfterOneRun(u, industry) ==
    LET results == all_validation_results(u, industry)
        mine == JoinUpload(View, u)
    IN /\ results # <<>>
       /\ Cardinality(mine) = Len(results)
       /\ \A i \in 1..Len(results) :
              \E o \in mine : /\ o.data_id = results[i].data_id
                              /\ o.rule_name = results[i].rule_name

\* C9: a second validate_upload(u, industry) on unchanged measurements
\* leaves every row of the first run as it is (reviewed flag and notes
\* included) and appends a fresh set: the upload then has twice the rows.
C9_ValidateUploadAppends ==
    [][\A u \in Uploads, industry \in Industries :
          (validate_upload(u, industry) /\ AfterOneRun(u, industry)) =>
              /\ last'.status = "ok"
              /\ \A o \in JoinUpload(View, u) : o \in validation_results'
              /\ Cardinality(JoinUpload(View, u)')
                     = 2 * Cardinality(JoinUpload(View, u))]_vars

\* the second run has returned; a row of the first run is still reviewed
C9_Witness ==
    /\ last.op = "validate_upload"
    /\ last.status = "ok"
    /\ \E industry \in Industries :
           LET results == all_validation_results(last.target, industry)
               mine == JoinUpload(View, last.target)
           IN /\ results # <<>>
              /\ Cardinality(mine) = 2 * Len(results)
              /\ \E o \in mine : o.reviewed /\ o.id <= Len(results)
              /\ \A i \in 1..Len(results) :
                     Cardinality({o \in mine :
                         /\ o.data_id = results[i].data_id
                         /\ o.rule_name = results[i].rule_name}) = 2

\* C10: validate_upload on an upload without normalized measurements raises
\* ValueError and adds no validation_results row and no audit_log row.
C10_NoDataAborts ==
    [][\A u \in Uploads, industry \in Industries :
          (validate_upload(u, industry) /\ NormalizedOf(u) = {}) =>
              /\ last'.status = "ValueError"
              /\ validation_results' = validation_results
              /\ audit_log' = audit_log
              /\ pending' = pending]_vars

C10_Witness ==
    /\ last.op = "validate_upload"
    /\ last.status = "ValueError"
    /\ NormalizedOf(last.target) = {}
    /\ normalized_data # {}

\* ------------------------------------------------------------------------
\* Reviewer calls with any arguments: the notes and the reason are strings
\* the service stores as given, the empty string included
\* ------------------------------------------------------------------------
AnyNotes == {"", "false positive"}
AnyReasons == {"", "accepted"}

NextNotes ==
    \/ \E id \in KnownResultIds, rv \in Reviewers, n \in AnyNotes :
           mark_error_as_reviewed(id, rv, n) /\ UNCHANGED ServiceFrame
    \/ \E id \in KnownResultIds, rs \in AnyReasons, rv \in Reviewers :
           suppress_warning(id, rs, rv) /\ UNCHANGED ServiceFrame
    \/ \E ids \in IdLists, rv \in Reviewers, n \in AnyNotes :
           bulk_review_errors(ids, rv, n) /\ UNCHANGED ServiceFrame

SpecNotes == InitReview /\ [][NextNotes]_vars

\* C11 as stated: in every state reached by mark_error_as_reviewed,
\* suppress_warning and bulk_review_errors calls with any arguments, every
\* outcome with reviewed = true has a non-empty reviewer_notes.
C11_ReviewedHasNotes ==
    \A o \in View : o.reviewed => (o.reviewer_notes # None /\ o.reviewer_notes # "")

\* ------------------------------------------------------------------------
\* Two reviewer requests on the same outcome, each in a session of its own
\* (get_db opens one session per request).  A handler runs in three steps:
\* the row is loaded, the reviewed flag and the notes are committed, the
\* audit entry is committed.  No column carries a version, so an UPDATE is
\* never refused.
\* ------------------------------------------------------------------------
SessionReviewer == [s \in Sessions |-> IF s = "s1" THEN "alice" ELSE "bob"]
SessionNotes == [s \in Sessions |-> IF s = "s1" THEN "false positive"
                                    ELSE "duplicate"]
SessionReason == [s \in Sessions |-> IF s = "s1" THEN "accepted"
                                     ELSE "variance"]
ReviewOps == {"mark_error_as_reviewed", "suppress_warning"}

Request(s, op, result_id) ==
    [pc |-> "called", op |-> op, result_id |-> result_id,
     reviewer |-> SessionReviewer[s],
     notes |-> IF op = "suppress_warning" THEN Suppressed(SessionReason[s])
               ELSE SessionNotes[s],
     order |-> 0, status |-> "none"]

\* the store after validation, and the two calls, both on one existing row
InitConcurrent ==
    /\ \E rows \in ReviewRowLists :
           normalized_data = {[id |-> i,
                               upload_id |-> rows[i][1],
                               indicator |-> rows[i][2],
                               value |-> rows[i][3]] : i \in 1..Len(rows)}
    /\ LET results == all_validation_results(1, "cement_industry")
       IN /\ validation_results = NewRows(results, 1)
          /\ audit_log = RunAudit(<<1>>)
          /\ next_result_id = Len(results) + 1
    /\ last = Call("validate_upload",
                   IF NormalizedOf(1) = {} THEN "ValueError" ELSE "ok", 1)
    /\ pending = {}
    /\ \E id \in {o.id : o \in validation_results}, ops \in [Sessions -> ReviewOps] :
           requests = [s \in Sessions |-> Request(s, ops[s], id)]
    /\ returned = NoCall

\* query(DBValidationResult).filter(id == result_id).first() and the checks
load_result(s) ==
    LET rq == requests[s]
        found == {o \in validation_results : o.id = rq.result_id}
        rejected == \/ found = {}
                    \/ /\ rq.op = "suppress_warning"
                       /\ \E o \in found : o.severity = "error"
    IN /\ rq.pc = "called"
       /\ requests' = [requests EXCEPT ![s] =
              IF rejected
              THEN [rq EXCEPT !.pc = "done", !.status = "ValueError"]
              ELSE [rq EXCEPT !.pc = "loaded"]]
       /\ UNCHANGED <<normalized_data, validation_results, audit_log, pending,
                      next_result_id, last>>

\* reviewed = True; reviewer_notes = ...; commit: the UPDATE of the row
commit_review(s) ==
    LET rq == requests[s]
        committed == {t \in Sessions : requests[t].order > 0}
    IN /\ rq.pc = "loaded"
       /\ validation_results' =
              {IF o.id = rq.result_id THEN MarkRow(o, rq.notes) ELSE o :
                   o \in validation_results}
       /\ requests' = [requests EXCEPT ![s] =
              [rq EXCEPT !.pc = "marked",
                         !.order = Cardinality(committed) + 1]]
       /\ last' = Call(rq.op, "ok", rq.result_id)
       /\ UNCHANGED <<normalized_data, audit_log, pending, next_result_id>>

\* db.add(audit_log); commit
commit_audit(s) ==
    LET rq == requests[s]
    IN /\ rq.pc = "marked"
       /\ audit_log' = audit_log (+)
              SetToBag({AuditEntry(rq.result_id, "validation_result",
                                   rq.reviewer)})
       /\ requests' = [requests EXCEPT ![s] =
              [rq EXCEPT !.pc = "done", !.status = "ok"]]
       /\ UNCHANGED <<normalized_data, validation_results, pending,
                      next_result_id, last>>

NextConcurrent ==
    \/ \E s \in Sessions : load_result(s) /\ UNCHANGED returned
    \/ \E s \in Sessions : commit_review(s) /\ UNCHANGED returned
    \/ \E s \in Sessions : commit_audit(s) /\ UNCHANGED returned

SpecConcurrent == InitConcurrent /\ [][NextConcurrent]_vars

AllDone == \A s \in Sessions : requests[s].pc = "done"
Target == CHOOSE o \in validation_results :
              \A s \in Sessions : o.id = requests[s].result_id
LastWriter == CHOOSE s \in Sessions :
                  \A t \in Sessions : requests[t].order <= requests[s].order
ReviewEntries(result_id) ==
    BagCardinality([e \in {x \in BagToSet(audit_log) :
                              /\ x.entity_type = "validation_result"
                              /\ x.entity_id = result_id} |-> audit_log[e]])

\* C12 as stated: when both calls have returned, neither was rejected, the
\* outcome is reviewed with the notes of the write that committed last, and
\* the audit log holds one entry for the outcome per call.
C12_LastWriteWins ==
    AllDone =>
        /\ \A s \in Sessions : requests[s].status = "ok"
        /\ Target.reviewed
        /\ Target.reviewer_notes = requests[LastWriter].notes
        /\ ReviewEntries(Target.id) = Cardinality(Sessions)

\* C12 amended: the same for calls that are legal on the outcome, that is,
\* suppress_warning is among them only when the outcome is a warning.
C12_LastWriteWinsOnLegalCalls ==
    (/\ AllDone
     /\ \A s \in Sessions :
            requests[s].op = "suppress_warning" => Target.severity = "warning")
        =>
        /\ \A s \in Sessions : requests[s].status = "ok"
        /\ Target.reviewed
        /\ Target.reviewer_notes = requests[LastWriter].notes
        /\ ReviewEntries(Target.id) = Cardinality(Sessions)

\* both calls returned; s2 loaded and committed the row first, s1 after it
\* with a suppression, and s1's notes are the ones stored
C12_Witness ==
    /\ AllDone
    /\ requests["s1"].op = "suppress_warning"
    /\ requests["s2"].op = "mark_error_as_reviewed"
    /\ requests["s2"].order = 1
    /\ requests["s1"].order = 2
    /\ Target.reviewer_notes = Suppressed(SessionReason["s1"])

\* ------------------------------------------------------------------------
\* UnitNormalizer: the unit taxonomy (conversion_data) and the lookups
\* ------------------------------------------------------------------------
\* A factor is <<numerator, denominator>>; <<>> is a stored null factor
Conversion(unit, factor) == [unit |-> unit, factor |-> factor]

\* Categories in the order of the taxonomy document
CategoryOrder ==
    <<"energy", "mass", "volume", "emissions", "area", "power", "temperature">>
Categories == {CategoryOrder[i] : i \in 1..Len(CategoryOrder)}

conversion_data ==
    [c \in Categories |->
        CASE c = "energy" ->
                 [base_unit |-> "MWh",
                  conversions |-> <<Conversion("kWh", <<1, 1000>>),
                                    Conversion("GJ", <<5, 18>>)>>]
          [] c = "mass" ->
                 [base_unit |-> "tonnes",
                  conversions |-> <<Conversion("kg", <<1, 1000>>)>>]
          [] c = "volume" ->
                 [base_unit |-> "m^3",
                  conversions |-> <<Conversion("liters", <<1, 1000>>)>>]
          [] c = "emissions" ->
                 [base_unit |-> "tonnes CO2e",
                  conversions |-> <<Conversion("kg CO2e", <<1, 1000>>)>>]
          [] c = "area" ->
                 [base_unit |-> "m^2",
                  conversions |-> <<Conversion("hectares", <<10000, 1>>)>>]
          [] c = "power" ->
                 [base_unit |-> "MW",
                  conversions |-> <<Conversion("kW", <<1, 1000>>)>>]
          [] OTHER ->
                 [base_unit |-> "degC",
                  conversions |-> <<Conversion("degF", <<>>)>>]]

\* Units a category holds: its base unit and the keys of its conversions
UnitsOf(category) ==
    LET conversions == conversion_data[category].conversions
    IN {conversion_data[category].base_unit}
           \cup {conversions[i].unit : i \in 1..Len(conversions)}

KnownUnits == UNION {UnitsOf(c) : c \in Categories}

\* _build_unit_lookup: unit -> (category, base_unit); a later category of
\* the document overwrites the entry of an earlier one
unit_lookup ==
    [u \in KnownUnits |->
        LET holders == {i \in 1..Len(CategoryOrder) : u \in UnitsOf(CategoryOrder[i])}
            k == CHOOSE i \in holders : \A j \in holders : j <= i
        IN [category |-> CategoryOrder[k],
            base_unit |-> conversion_data[CategoryOrder[k]].base_unit]]

\* Categories whose values must not be negative
AbsoluteCategories == {"energy", "mass", "volume", "emissions", "area", "power"}

Raise(error) == [status |-> error]

FactorOf(category, unit) ==
    LET conversions == conversion_data[category].conversions
        \* a repeated key of the document keeps its last value
        k == CHOOSE i \in 1..Len(conversions) :
                 /\ conversions[i].unit = unit
                 /\ \A j \in (i + 1)..Len(conversions) : conversions[j].unit # unit
    IN conversions[k].factor

\* Mutant: the unit of the input is kept as the unit of the result
normalize_keeping_unit(value, from_unit, category) ==
    IF category = None /\ from_unit \notin KnownUnits
    THEN Raise("UnitNotFoundError")
    ELSE IF category # None /\ category \notin Categories
    THEN Raise("UnitNotFoundError")
    ELSE LET cat == IF category = None THEN unit_lookup[from_unit].category
                    ELSE category
             base_unit == IF category = None THEN unit_lookup[from_unit].base_unit
                          ELSE conversion_data[category].base_unit
         IN IF value < 0 /\ cat \in AbsoluteCategories
            THEN Raise("InvalidValueError")
            ELSE IF from_unit = base_unit
            THEN [status |-> "ok", original_value |-> value,
                  original_unit |-> from_unit, normalized_value |-> <<value, 1>>,
                  normalized_unit |-> base_unit, conversion_factor |-> <<1, 1>>]
            ELSE IF from_unit \notin UnitsOf(cat) THEN Raise("UnitNotFoundError")
            ELSE IF FactorOf(cat, from_unit) = <<>> THEN Raise("InvalidValueError")
            ELSE LET factor == FactorOf(cat, from_unit)
                 IN [status |-> "ok", original_value |-> value,
                     original_unit |-> from_unit,
                     normalized_value |-> <<value * factor[1], factor[2]>>,
                     normalized_unit |-> from_unit,
                     conversion_factor |-> factor]

\* Mutant: the sign of the value is not checked
normalize_unsigned(value, from_unit, category) ==
    IF category = None /\ from_unit \notin KnownUnits
    THEN Raise("UnitNotFoundError")
    ELSE IF category # None /\ category \notin Categories
    THEN Raise("UnitNotFoundError")
    ELSE LET cat == IF category = None THEN unit_lookup[from_unit].category
                    ELSE category
             base_unit == IF category = None THEN unit_lookup[from_unit].base_unit
                          ELSE conversion_data[category].base_unit
         IN IF from_unit = base_unit
            THEN [status |-> "ok", original_value |-> value,
                  original_unit |-> from_unit, normalized_value |-> <<value, 1>>,
                  normalized_unit |-> base_unit, conversion_factor |-> <<1, 1>>]
            ELSE IF from_unit \notin UnitsOf(cat) THEN Raise("UnitNotFoundError")
            ELSE IF FactorOf(cat, from_unit) = <<>> THEN Raise("InvalidValueError")
            ELSE LET factor == FactorOf(cat, from_unit)
                 IN [status |-> "ok", original_value |-> value,
                     original_unit |-> from_unit,
                     normalized_value |-> <<value * factor[1], factor[2]>>,
                     normalized_unit |-> base_unit,
                     conversion_factor |-> factor]

\* UnitNormalizer.normalize; category = None when the hint is left out.
\* Values are rationals <<numerator, denominator>>.
normalize(value, from_unit, category) ==
    IF category = None /\ from_unit \notin KnownUnits
    THEN Raise("UnitNotFoundError")
    ELSE IF category # None /\ category \notin Categories
    THEN Raise("UnitNotFoundError")
    ELSE LET cat == IF category = None THEN unit_lookup[from_unit].category
                    ELSE category
             base_unit == IF category = None THEN unit_lookup[from_unit].base_unit
                          ELSE conversion_data[category].base_unit
         IN IF value < 0 /\ cat \in AbsoluteCategories
            THEN Raise("InvalidValueError")
            ELSE IF from_unit = base_unit
            THEN [status |-> "ok", original_value |-> value,
                  original_unit |-> from_unit, normalized_value |-> <<value, 1>>,
                  normalized_unit |-> base_unit, conversion_factor |-> <<1, 1>>]
            ELSE IF from_unit \notin UnitsOf(cat) THEN Raise("UnitNotFoundError")
            ELSE IF FactorOf(cat, from_unit) = <<>> THEN Raise("InvalidValueError")
            ELSE LET factor == FactorOf(cat, from_unit)
                 IN [status |-> "ok", original_value |-> value,
                     original_unit |-> from_unit,
                     normalized_value |-> <<value * factor[1], factor[2]>>,
                     normalized_unit |-> base_unit,
                     conversion_factor |-> factor]

\* Mutant: the categories of the two units are not compared
get_conversion_factor_coercing(from_unit, to_unit) ==
    IF from_unit \notin KnownUnits THEN Raise("UnitNotFoundError")
    ELSE IF to_unit \notin KnownUnits THEN Raise("UnitNotFoundError")
    ELSE LET from_category == unit_lookup[from_unit].category
             from_base == unit_lookup[from_unit].base_unit
             to_category == unit_lookup[to_unit].category
             to_base == unit_lookup[to_unit].base_unit
             from_factor == IF from_unit = from_base THEN <<1, 1>>
                            ELSE FactorOf(from_category, from_unit)
             to_factor == IF to_unit = to_base THEN <<1, 1>>
                          ELSE FactorOf(to_category, to_unit)
         IN IF from_unit = to_unit
            THEN [status |-> "ok", factor |-> <<1, 1>>]
            ELSE IF from_factor = <<>> THEN Raise("InvalidValueError")
            ELSE IF to_factor = <<>> THEN Raise("InvalidValueError")
            ELSE [status |-> "ok",
                  factor |-> <<from_factor[1] * to_factor[2],
                               from_factor[2] * to_factor[1]>>]

\* Mutant: the two factors are multiplied instead of divided
get_conversion_factor_multiplying(from_unit, to_unit) ==
    IF from_unit \notin KnownUnits THEN Raise("UnitNotFoundError")
    ELSE IF to_unit \notin KnownUnits THEN Raise("UnitNotFoundError")
    ELSE LET from_category == unit_lookup[from_unit].category
             from_base == unit_lookup[from_unit].base_unit
             to_category == unit_lookup[to_unit].category
             to_base == unit_lookup[to_unit].base_unit
             from_factor == IF from_unit = from_base THEN <<1, 1>>
                            ELSE FactorOf(from_category, from_unit)
             to_factor == IF to_unit = to_base THEN <<1, 1>>
                          ELSE FactorOf(from_category, to_unit)
         IN IF from_category # to_category
            THEN Raise("CategoryMismatchError")
            ELSE IF from_unit = to_unit
            THEN [status |-> "ok", factor |-> <<1, 1>>]
            ELSE IF from_factor = <<>> THEN Raise("InvalidValueError")
            ELSE IF to_factor = <<>> THEN Raise("InvalidValueError")
            ELSE [status |-> "ok",
                  factor |-> <<from_factor[1] * to_factor[1],
                               from_factor[2] * to_factor[2]>>]

\* UnitNormalizer.get_conversion_factor
get_conversion_factor(from_unit, to_unit) ==
    IF from_unit \notin KnownUnits THEN Raise("UnitNotFoundError")
    ELSE IF to_unit \notin KnownUnits THEN Raise("UnitNotFoundError")
    ELSE LET from_category == unit_lookup[from_unit].category
             from_base == unit_lookup[from_unit].base_unit
             to_category == unit_lookup[to_unit].category
             to_base == unit_lookup[to_unit].base_unit
             from_factor == IF from_unit = from_base THEN <<1, 1>>
                            ELSE FactorOf(from_category, from_unit)
             to_factor == IF to_unit = to_base THEN <<1, 1>>
                          ELSE FactorOf(from_category, to_unit)
         IN IF from_category # to_category
            THEN Raise("CategoryMismatchError")
            ELSE IF from_unit = to_unit
            THEN [status |-> "ok", factor |-> <<1, 1>>]
            ELSE IF from_factor = <<>> THEN Raise("InvalidValueError")
            ELSE IF to_factor = <<>> THEN Raise("InvalidValueError")
            ELSE [status |-> "ok",
                  factor |-> <<from_factor[1] * to_factor[2],
                               from_factor[2] * to_factor[1]>>]

\* UnitNormalizer.validate_conversion
validate_conversion(from_unit, to_unit) ==
    get_conversion_factor(from_unit, to_unit).status = "ok"

\* ------------------------------------------------------------------------
\* Calls of the UnitNormalizer with arguments drawn from the taxonomy and
\* from outside it
\* ------------------------------------------------------------------------
UnitValues == {-1, 0, 5}
UnitArgs == KnownUnits \cup {"xyz"}
CategoryArgs == Categories \cup {None, "unknown_category"}

call_normalize(value, from_unit, category) ==
    /\ returned' = [call |-> "normalize",
                    args |-> <<value, from_unit, category>>,
                    result |-> normalize(value, from_unit, category)]
    /\ UNCHANGED <<normalized_data, validation_results, audit_log, pending,
                   next_result_id, last, requests>>

call_get_conversion_factor(from_unit, to_unit) ==
    /\ returned' = [call |-> "get_conversion_factor",
                    args |-> <<from_unit, to_unit>>,
                    result |-> get_conversion_factor(from_unit, to_unit)]
    /\ UNCHANGED <<normalized_data, validation_results, audit_log, pending,
                   next_result_id, last, requests>>

call_validate_conversion(from_unit, to_unit) ==
    /\ returned' = [call |-> "validate_conversion",
                    args |-> <<from_unit, to_unit>>,
                    result |-> validate_conversion(from_unit, to_unit)]
    /\ UNCHANGED <<normalized_data, validation_results, audit_log, pending,
                   next_result_id, last, requests>>

NextUnits ==
    \/ \E v \in UnitValues, u \in UnitArgs, c \in CategoryArgs :
           call_normalize(v, u, c)
    \/ \E u1 \in UnitArgs, u2 \in UnitArgs : call_get_conversion_factor(u1, u2)
    \/ \E u1 \in UnitArgs, u2 \in UnitArgs : call_validate_conversion(u1, u2)

SpecUnits == Init /\ [][NextUnits]_vars

\* two units the taxonomy knows, of different categories
CrossCategory(u1, u2) ==
    /\ u1 \in KnownUnits
    /\ u2 \in KnownUnits
    /\ unit_lookup[u1].category # unit_lookup[u2].category

\* C19: for every pair of known units of different categories,
\* get_conversion_factor raises CategoryMismatchError and returns no factor,
\* and validate_conversion returns false.
C19_CrossCategoryRejected ==
    /\ (returned.call = "get_conversion_factor"
        /\ CrossCategory(returned.args[1], returned.args[2]))
           => returned.result = Raise("CategoryMismatchError")
    /\ (returned.call = "validate_conversion"
        /\ CrossCategory(returned.args[1], returned.args[2]))
           => returned.result = FALSE

\* a unit of energy against a unit of mass has been refused
C19_Witness ==
    /\ returned.call = "get_conversion_factor"
    /\ returned.args = <<"kWh", "kg">>
    /\ returned.result.status = "CategoryMismatchError"

\* C20: normalize(-1, u) raises InvalidValueError for every unit u of an
\* absolute-measure category, the base unit of the category included.
C20_NegativeAbsoluteRejected ==
    (/\ returned.call = "normalize"
     /\ returned.args[1] = -1
     /\ returned.args[3] = None
     /\ \E c \in AbsoluteCategories : returned.args[2] \in UnitsOf(c))
        => returned.result = Raise("InvalidValueError")

\* the call was made on a base unit and on a convertible unit
C20_Witness ==
    /\ returned.call = "normalize"
    /\ returned.args = <<-1, "MWh", None>>
    /\ returned.result.status = "InvalidValueError"

\* ------------------------------------------------------------------------
\* NormalizationService: unit detection, process_indicator, normalize_data
\* ------------------------------------------------------------------------
MaxRuns == 2         \* normalize_data runs that reach their end
MaxIndicators == 2   \* approved indicators of an upload

\* numeric_values[:100] and the thresholds of the magnitude heuristics
SampleSize == 100
EnergyKwhAbove == 100000
EnergyMwhAbove == 100
EnergyGjAbove == 1
EmissionsKgAbove == 1000
WaterLitersAbove == 10000
MassKgAbove == 10000

\* Cells of a column: numbers, nulls and text
Num(v) == [kind |-> "num", v |-> v]
Null == [kind |-> "null", v |-> 0]
Text == [kind |-> "text", v |-> 0]
IsNumeric(cell) == cell.kind = "num"

\* A header: its text, the candidate unit texts the three patterns of
\* _extract_unit_from_text find in it (each a list of words), and the
\* keywords its lower-cased text contains
Header(text, annotations, contains) ==
    [text |-> text, annotations |-> annotations, contains |-> contains]

\* The words of a unit string
UnitTokens(unit) ==
    IF unit = "tonnes CO2e" THEN <<"tonnes", "CO2e">>
    ELSE IF unit = "kg CO2e" THEN <<"kg", "CO2e">>
    ELSE <<unit>>

Occurs(tokens, text) ==
    \E i \in 1..(Len(text) - Len(tokens) + 1) :
        SubSeq(text, i, i + Len(tokens) - 1) = tokens

\* unit_lookup.keys() in insertion order
UnitOrder ==
    Dedupe(Flatten([c \in 1..Len(CategoryOrder) |->
        LET data == conversion_data[CategoryOrder[c]]
        IN <<data.base_unit>>
               \o [i \in 1..Len(data.conversions) |-> data.conversions[i].unit]]))

\* UnitNormalizer.detect_unit: the longest unit string found in the text,
\* the earliest of the lookup among equally long ones
detect_unit(text) ==
    LET matching == {i \in 1..Len(UnitOrder) : Occurs(UnitTokens(UnitOrder[i]), text)}
        k == CHOOSE i \in matching :
                 \A j \in matching :
                     \/ Len(UnitOrder[j]) < Len(UnitOrder[i])
                     \/ Len(UnitOrder[j]) = Len(UnitOrder[i]) /\ i <= j
    IN IF matching = {} THEN Raise("UnitNotFoundError")
       ELSE [status |-> "ok", unit |-> UnitOrder[k],
             category |-> unit_lookup[UnitOrder[k]].category]

RECURSIVE _extract_unit_from_text(_)
_extract_unit_from_text(annotations) ==
    IF annotations = <<>> THEN None
    ELSE LET found == detect_unit(Head(annotations))
         IN IF found.status = "ok" THEN found.unit
            ELSE _extract_unit_from_text(Tail(annotations))

RECURSIVE MaxOf(_)
MaxOf(values) ==
    IF Len(values) = 1 THEN values[1]
    ELSE LET m == MaxOf(Tail(values))
         IN IF values[1] > m THEN values[1] ELSE m

detect_unit_from_context(header, sample_values) ==
    LET unit_from_name == _extract_unit_from_text(header.annotations)
        max_value == MaxOf(sample_values)
        Has(keywords) == header.contains \cap keywords # {}
        energy ==
            IF Has({"energy", "electricity", "power"})
            THEN IF max_value > EnergyKwhAbove THEN "kWh"
                 ELSE IF max_value > EnergyMwhAbove THEN "MWh"
                 ELSE IF max_value > EnergyGjAbove THEN "GJ"
                 ELSE None
            ELSE None
        emissions ==
            IF Has({"emission", "co2", "ghg", "carbon"})
            THEN IF "kg" \in header.contains THEN "kg CO2e"
                 ELSE IF max_value > EmissionsKgAbove THEN "kg CO2e"
                 ELSE "tonnes CO2e"
            ELSE None
        water ==
            IF Has({"water", "consumption"})
            THEN IF max_value > WaterLitersAbove THEN "liters" ELSE "m3"
            ELSE None
        mass ==
            IF Has({"waste", "material", "mass", "weight"})
            THEN IF max_value > MassKgAbove THEN "kg" ELSE "tonnes"
            ELSE None
    IN IF unit_from_name # None THEN unit_from_name
       ELSE IF sample_values = <<>> THEN None
       ELSE IF energy # None THEN energy
       ELSE IF emissions # None THEN emissions
       ELSE IF water # None THEN water
       ELSE mass

\* An approved matched indicator with the column the file holds for it
Indicator(id, header, matched_indicator, in_file, column) ==
    [id |-> id, original_header |-> header,
     matched_indicator |-> matched_indicator, in_file |-> in_file,
     column |-> column]

NumericValues(data) ==
    LET cells == SelectSeq(data, IsNumeric)
    IN [i \in 1..Len(cells) |-> cells[i].v]

Sample(values) ==
    SubSeq(values, 1, IF Len(values) < SampleSize THEN Len(values) ELSE SampleSize)

NormalizedRecords(indicator, idx, result) ==
    IF result.status # "ok" THEN <<>>
    ELSE <<[matched_indicator_id |-> indicator.id,
            original_value |-> result.original_value,
            original_unit |-> result.original_unit,
            normalized_value |-> result.normalized_value,
            normalized_unit |-> result.normalized_unit,
            conversion_factor |-> result.conversion_factor,
            row_index |-> idx - 1,
            canonical_indicator |-> indicator.matched_indicator]>>

\* The records of the numeric cells of a column under the detected unit;
\* a value normalize rejects is skipped
RecordsOf(indicator, detected_unit) ==
    Flatten([idx \in 1..Len(indicator.column) |->
        IF ~IsNumeric(indicator.column[idx]) THEN <<>>
        ELSE NormalizedRecords(indicator, idx,
                 normalize(indicator.column[idx].v, detected_unit, None))])

\* Mutant: an indicator without a detectable unit yields no record, no error
Detected_skipping(indicator, numeric_values, detected_unit) ==
    IF numeric_values = <<>> THEN [status |-> "ok", records |-> <<>>]
    ELSE IF detected_unit = None THEN [status |-> "ok", records |-> <<>>]
    ELSE [status |-> "ok", records |-> RecordsOf(indicator, detected_unit)]

\* process_indicator once the unit detection has answered
Detected(indicator, numeric_values, detected_unit) ==
    IF numeric_values = <<>> THEN [status |-> "ok", records |-> <<>>]
    ELSE IF detected_unit = None THEN Raise("NormalizationError")
    ELSE [status |-> "ok", records |-> RecordsOf(indicator, detected_unit)]

\* NormalizationService.process_indicator
process_indicator(indicator) ==
    Detected(indicator, NumericValues(indicator.column),
             detect_unit_from_context(indicator.original_header,
                                      Sample(NumericValues(indicator.column))))

\* save_normalized_data: the rows of one indicator, inserted in one
\* transaction; created_at is the time of the run
SavedRows(rows, records, upload_id, now) ==
    {[id |-> Cardinality(rows) + i,
      upload_id |-> upload_id,
      indicator_id |-> records[i].matched_indicator_id,
      original_value |-> records[i].original_value,
      original_unit |-> records[i].original_unit,
      normalized_value |-> records[i].normalized_value,
      normalized_unit |-> records[i].normalized_unit,
      conversion_factor |-> records[i].conversion_factor,
      created_at |-> now] : i \in 1..Len(records)}

ErrorEntry(indicator, kind) ==
    [header |-> indicator.original_header.text, kind |-> kind]

\* The statistics normalize_data keeps, and the rows committed so far
Tally(rows) ==
    [rows |-> rows, total_records |-> 0, successfully_normalized |-> 0,
     failed_normalization |-> 0, unique_units |-> {},
     conversions_applied |-> EmptyBag, errors |-> <<>>]

\* Mutant: the rollback of a failing indicator also drops the rows the run
\* committed for earlier indicators
Failed_dropping(t, indicator, kind, indicator_total) ==
    [t EXCEPT !.rows = {r \in t.rows :
                           \E q \in t.rows : q.created_at > r.created_at},
              !.errors = Append(t.errors, ErrorEntry(indicator, kind)),
              !.failed_normalization = t.failed_normalization + indicator_total,
              !.total_records = t.total_records
                  + (IF indicator_total > 0 THEN indicator_total
                     ELSE Len(indicator.column))]

\* the except branch of the loop: error recorded, rollback, counts
Failed(t, indicator, kind, indicator_total) ==
    [t EXCEPT !.errors = Append(t.errors, ErrorEntry(indicator, kind)),
              !.failed_normalization = t.failed_normalization + indicator_total,
              !.total_records = t.total_records
                  + (IF indicator_total > 0 THEN indicator_total
                     ELSE Len(indicator.column))]

\* the end of the try block: rows committed, statistics updated
Succeeded(t, records, indicator_total, upload_id, now) ==
    [t EXCEPT
       !.rows = t.rows \cup SavedRows(t.rows, records, upload_id, now),
       !.unique_units = t.unique_units
           \cup {records[i].original_unit : i \in 1..Len(records)},
       !.conversions_applied = t.conversions_applied (+)
           BagOfAll(LAMBDA i : <<records[i].original_unit,
                                 records[i].normalized_unit>>,
                    SetToBag(1..Len(records))),
       !.successfully_normalized = t.successfully_normalized + Len(records),
       !.total_records = t.total_records + indicator_total]

\* One pass of the loop of normalize_data over an approved indicator whose
\* process_indicator ended with outcome; save_fails says whether the
\* insert of its rows raises
Processed(t, indicator, outcome, indicator_total, save_fails, upload_id, now) ==
    IF ~indicator.in_file
    THEN [t EXCEPT !.errors =
             Append(t.errors, ErrorEntry(indicator, "column not found"))]
    ELSE IF outcome.status # "ok" \/ (outcome.records # <<>> /\ save_fails)
    THEN Failed(t, indicator,
                IF outcome.status # "ok" THEN outcome.status ELSE "save failed",
                indicator_total)
    ELSE IF outcome.records = <<>>
    THEN [t EXCEPT !.total_records = t.total_records + indicator_total]
    ELSE Succeeded(t, outcome.records, indicator_total, upload_id, now)

RECURSIVE NormalizeRun(_, _, _, _, _, _)
NormalizeRun(t, indicators, i, db_fails, upload_id, now) ==
    IF i > Len(indicators) THEN t
    ELSE NormalizeRun(Processed(t, indicators[i],
                                process_indicator(indicators[i]),
                                Len(NumericValues(indicators[i].column)),
                                i \in db_fails, upload_id, now),
                      indicators, i + 1, db_fails, upload_id, now)

\* Runs of normalize_data that reached their end: one audit entry each
RunsDone ==
    BagCardinality([e \in {x \in BagToSet(audit_log) : x.actor = "system"}
                        |-> audit_log[e]])

\* What normalize_data returns
NormalizationSummary(t) ==
    [total_records |-> t.total_records,
     successfully_normalized |-> t.successfully_normalized,
     failed_normalization |-> t.failed_normalization,
     unique_units_detected |-> t.unique_units,
     conversions_applied |-> t.conversions_applied,
     errors |-> t.errors]

\* The end of normalize_data: audit entry, summary
Finished(upload_id, indicators, db_fails, t) ==
    /\ normalized_data' = t.rows
    /\ audit_log' = audit_log (+)
           SetToBag({AuditEntry(upload_id, "upload", "system")})
    /\ returned' = [call |-> "normalize_data",
                     args |-> <<upload_id, indicators, db_fails>>,
                     status |-> "ok", result |-> NormalizationSummary(t)]
    /\ UNCHANGED <<validation_results, pending, next_result_id, last, requests>>

\* NormalizationService.normalize_data(upload_id) with the approved
\* indicators of the upload and the inserts that raise
normalize_data(upload_id, indicators, db_fails) ==
    IF indicators = <<>>
    THEN /\ returned' = [call |-> "normalize_data",
                         args |-> <<upload_id, indicators, db_fails>>,
                         status |-> "NormalizationError"]
         /\ UNCHANGED <<normalized_data, validation_results, audit_log,
                        pending, next_result_id, last, requests>>
    ELSE /\ RunsDone < MaxRuns
         /\ Finished(upload_id, indicators, db_fails,
                     NormalizeRun(Tally(normalized_data), indicators, 1,
                                  db_fails, upload_id, RunsDone + 1))

\* The approved indicators and columns the runs are given
ApprovedIndicators ==
    {Indicator(1, Header("Energy (kWh)", <<<<"kWh">>>>, {"energy"}),
               "energy_consumption", TRUE, <<Num(5000), Null, Num(-1)>>),
     Indicator(2, Header("Total Emissions", <<>>, {"emission"}),
               "scope_1", TRUE, <<Num(1), Num(5000)>>),
     Indicator(3, Header("Unknown Metric", <<>>, {}),
               "unknown", TRUE, <<Num(5)>>),
     Indicator(4, Header("Remarks (site)", <<<<"site">>>>, {}),
               "remarks", TRUE, <<Null, Text>>),
     Indicator(5, Header("Energy use", <<>>, {"energy"}),
               "energy_use", TRUE, <<Num(1)>>),
     Indicator(6, Header("Waste (kg)", <<<<"kg">>>>, {"waste", "kg"}),
               "waste", FALSE, <<>>)}

IndicatorLists == UNION {[1..n -> ApprovedIndicators] : n \in 0..MaxIndicators}
NormUploads == {1}

NextNormalize ==
    \E u \in NormUploads, inds \in IndicatorLists,
       db_fails \in SUBSET (1..MaxIndicators) :
        /\ db_fails \subseteq 1..Len(inds)
        /\ normalize_data(u, inds, db_fails)

SpecNormalize == Init /\ [][NextNormalize]_vars

\* ------------------------------------------------------------------------
\* Properties of normalize_data
\* ------------------------------------------------------------------------
\* The call a step of normalize_data served
RunUpload == returned'.args[1]
RunIndicators == returned'.args[2]
RunDbFails == returned'.args[3]
RunEnded == returned'.call = "normalize_data" /\ returned'.status = "ok"

\* The indicator at position i of the run failed: its column is missing,
\* process_indicator raised, or the insert of its rows raised
FailsAt(i) ==
    \/ ~RunIndicators[i].in_file
    \/ process_indicator(RunIndicators[i]).status # "ok"
    \/ /\ process_indicator(RunIndicators[i]).records # <<>>
       /\ i \in RunDbFails

ExpectedRecords ==
    Flatten([i \in 1..Len(RunIndicators) |->
        IF FailsAt(i) THEN <<>> ELSE process_indicator(RunIndicators[i]).records])

ExpectedErrors ==
    Flatten([i \in 1..Len(RunIndicators) |->
        IF FailsAt(i) THEN <<RunIndicators[i].original_header.text>> ELSE <<>>])

ExpectedFailed ==
    SumSeq([i \in 1..Len(RunIndicators) |->
        IF FailsAt(i) THEN Len(NumericValues(RunIndicators[i].column)) ELSE 0])

Persists(row, record) ==
    /\ row.indicator_id = record.matched_indicator_id
    /\ row.original_value = record.original_value
    /\ row.original_unit = record.original_unit
    /\ row.normalized_value = record.normalized_value
    /\ row.normalized_unit = record.normalized_unit
    /\ row.conversion_factor = record.conversion_factor

\* C13: a run of normalize_data in which any subset of the indicators fails
\* persists exactly the measurements of the indicators that did not fail,
\* in their order; every failing indicator is named in errors and its
\* values are counted as failed; no measurement committed before is removed
C13_PartialFailure ==
    [][RunEnded =>
         LET new == normalized_data' \ normalized_data
             errors == returned'.result.errors
         IN /\ normalized_data \subseteq normalized_data'
            /\ Cardinality(new) = Len(ExpectedRecords)
            /\ \A k \in 1..Len(ExpectedRecords) :
                   \E row \in new :
                       /\ row.id = Cardinality(normalized_data) + k
                       /\ row.upload_id = RunUpload
                       /\ Persists(row, ExpectedRecords[k])
            /\ [k \in 1..Len(errors) |-> errors[k].header] = ExpectedErrors
            /\ returned'.result.failed_normalization = ExpectedFailed
            /\ returned'.result.successfully_normalized = Len(ExpectedRecords)]_vars

\* A run over Total Emissions then Unknown Metric: the second indicator
\* failed after the rows of the first had been committed
C13_Witness ==
    /\ returned.call = "normalize_data"
    /\ returned.status = "ok"
    /\ Len(returned.args[2]) = 2
    /\ returned.args[2][1].original_header.text = "Total Emissions"
    /\ returned.args[2][2].original_header.text = "Unknown Metric"
    /\ returned.args[3] = {}
    /\ Len(returned.result.errors) = 1
    /\ returned.result.errors[1].header = "Unknown Metric"
    /\ returned.result.failed_normalization = 1
    /\ returned.result.successfully_normalized = 2
    /\ Cardinality({r \in normalized_data : r.indicator_id = 2}) >= 2

\* No unit can be determined for the indicator, neither from its header
\* nor from the heuristics over its numeric values
Undeterminable(indicator) ==
    detect_unit_from_context(indicator.original_header,
                             Sample(NumericValues(indicator.column))) = None

\* The run rejected the indicator at position i: process_indicator raises
\* NormalizationError, the run persisted no measurement of it and its
\* errors name it
Rejected(i) ==
    /\ process_indicator(RunIndicators[i]).status = "NormalizationError"
    /\ \A row \in normalized_data' \ normalized_data :
           row.indicator_id # RunIndicators[i].id
    /\ \E k \in 1..Len(returned'.result.errors) :
           returned'.result.errors[k] =
               ErrorEntry(RunIndicators[i], "NormalizationError")

\* C14 as stated: every indicator of a run for which no unit can be
\* determined is rejected with an error naming it
C14_NoUnitRejected ==
    [][RunEnded =>
         \A i \in 1..Len(RunIndicators) :
             (RunIndicators[i].in_file /\ Undeterminable(RunIndicators[i]))
                 => Rejected(i)]_vars

\* C14 amended: an indicator with at least one numeric value and no
\* determinable unit is rejected with an error naming it; a column without
\* any numeric value yields no measurement and no error
C14_NoUnitRejectedWhenNumeric ==
    [][RunEnded =>
         \A i \in 1..Len(RunIndicators) :
             RunIndicators[i].in_file =>
                 /\ (/\ Undeterminable(RunIndicators[i])
                     /\ NumericValues(RunIndicators[i].column) # <<>>)
                        => Rejected(i)
                 /\ NumericValues(RunIndicators[i].column) = <<>> =>
                        /\ process_indicator(RunIndicators[i]) =
                               [status |-> "ok", records |-> <<>>]
                        /\ \A row \in normalized_data' \ normalized_data :
                               row.indicator_id # RunIndicators[i].id
                        /\ \A k \in 1..Len(returned'.result.errors) :
                               returned'.result.errors[k].header #
                                   RunIndicators[i].original_header.text]_vars

\* A run over the one indicator Unknown Metric, whose value 5 has no unit
C14_Witness ==
    /\ returned.call = "normalize_data"
    /\ returned.status = "ok"
    /\ Len(returned.args[2]) = 1
    /\ Undeterminable(returned.args[2][1])
    /\ NumericValues(returned.args[2][1].column) # <<>>
    /\ returned.result.errors =
           <<ErrorEntry(returned.args[2][1], "NormalizationError")>>
    /\ returned.result.successfully_normalized = 0

\* C17: measurements are superseded, not accumulated: the store holds only
\* the measurements created by the latest run of normalize_data for the
\* upload
C17_Superseded ==
    \A row \in normalized_data :
        row.upload_id \in NormUploads => row.created_at = RunsDone

\* The base unit of the category the taxonomy assigns to a unit
BaseUnitOf(unit) == conversion_data[unit_lookup[unit].category].base_unit

\* C18: normalized_unit is the base unit of the category resolved from
\* original_unit, for every successful normalize(value, from_unit) and
\* normalize(value, from_unit, category) and for every measurement
\* normalize_data persisted
C18_NormalizedUnitIsBase ==
    /\ \A value \in UnitValues, from_unit \in UnitArgs, category \in CategoryArgs :
           normalize(value, from_unit, category).status = "ok" =>
               normalize(value, from_unit, category).normalized_unit
                   = BaseUnitOf(from_unit)
    /\ \A row \in normalized_data :
           /\ row.original_unit \in KnownUnits
           /\ row.normalized_unit = BaseUnitOf(row.original_unit)

\* A persisted measurement converted from kg CO2e to tonnes CO2e
C18_Witness ==
    \E row \in normalized_data :
        /\ row.original_unit = "kg CO2e"
        /\ row.normalized_unit = "tonnes CO2e"
        /\ row.original_unit # row.normalized_unit

\* ------------------------------------------------------------------------
\* Validation runs over stores of several indicators, with the failures a
\* run can meet
\* ------------------------------------------------------------------------
MaxScopeRecords == 4

ScopeRows == {<<1, "scope_1", 1>>, <<1, "scope_1", 3>>,
              <<1, "total", 1>>, <<1, "total", 3>>}
ScopeRowLists == UNION {[1..n -> ScopeRows] : n \in 0..MaxScopeRecords}

\* Where a run of validate_upload can raise: while a group is evaluated,
\* at the commit of the outcomes, at the commit of the audit entry of
\* save_validation_results, at the commit of _log_validation_audit
FailPoints == {"evaluate", "insert", "audit", "log"}

\* Mutant: the outcomes of the groups evaluated so far are committed group
\* by group, so a failure in a later group leaves the earlier ones behind
validate_upload_failing_per_group(upload_id, industry, fail_at) ==
    LET results == all_validation_results(upload_id, industry)
        kept == IF fail_at = "evaluate"
                THEN SubSeq(results, 1, Len(results) - 1)
                ELSE IF fail_at = "insert" THEN <<>> ELSE results
        entry == SetToBag({AuditEntry(upload_id, "upload",
                                      "validation_service")})
    IN /\ NormalizedOf(upload_id) # {}
       /\ fail_at \in {"insert", "audit"} => results # <<>>
       /\ next_result_id + Len(kept) - 1 <= MaxResults
       /\ AuditCount("upload") + 1 <= MaxAudit
       /\ validation_results' = View \cup NewRows(kept, next_result_id)
       /\ audit_log' = IF fail_at = "log" /\ results # <<>>
                       THEN audit_log (+) entry ELSE audit_log
       /\ pending' = IF kept # <<>> THEN {} ELSE pending
       /\ next_result_id' = next_result_id + Len(kept)
       /\ last' = Call("validate_upload", "Exception", upload_id)
       /\ UNCHANGED normalized_data

\* validate_upload raising at fail_at: nothing is written before the one
\* commit of save_validation_results
validate_upload_failing(upload_id, industry, fail_at) ==
    LET results == all_validation_results(upload_id, industry)
        kept == IF fail_at \in {"evaluate", "insert"} THEN <<>> ELSE results
        entry == SetToBag({AuditEntry(upload_id, "upload",
                                      "validation_service")})
    IN /\ NormalizedOf(upload_id) # {}
       /\ fail_at \in {"insert", "audit"} => results # <<>>
       /\ next_result_id + Len(kept) - 1 <= MaxResults
       /\ AuditCount("upload") + 1 <= MaxAudit
       /\ validation_results' = View \cup NewRows(kept, next_result_id)
       /\ audit_log' = IF fail_at = "log" /\ results # <<>>
                       THEN audit_log (+) entry ELSE audit_log
       /\ pending' = IF kept # <<>> THEN {} ELSE pending
       /\ next_result_id' = next_result_id + Len(kept)
       /\ last' = Call("validate_upload", "Exception", upload_id)
       /\ UNCHANGED normalized_data

InitValidate ==
    /\ \E rows \in ScopeRowLists :
           normalized_data = {[id |-> i,
                               upload_id |-> rows[i][1],
                               indicator |-> rows[i][2],
                               value |-> rows[i][3]] : i \in 1..Len(rows)}
    /\ validation_results = {}
    /\ audit_log = EmptyBag
    /\ pending = {}
    /\ next_result_id = 1
    /\ last = Call("none", "ok", 0)
    /\ requests = [s \in Sessions |-> Idle]
    /\ returned = NoCall

NextValidate ==
    \/ \E u \in Uploads, industry \in Industries :
           validate_upload(u, industry) /\ UNCHANGED ServiceFrame
    \/ \E u \in Uploads, industry \in Industries, fail_at \in FailPoints :
           validate_upload_failing(u, industry, fail_at)
           /\ UNCHANGED ServiceFrame

SpecValidate == InitValidate /\ [][NextValidate]_vars

\* C15: one call of validate_upload persists its outcomes together: a call
\* that returns persists every failure validate_batch returned over all
\* indicator groups, a call that raises persists all of them or none, and
\* none when it raises before the evaluation of the groups has finished
C15_FullOutcomeSet ==
    [][\A u \in Uploads, industry \in Industries :
         LET new == validation_results' \ validation_results
             full == NewRows(all_validation_results(u, industry), next_result_id)
         IN /\ (validate_upload(u, industry) /\ last'.status = "ok")
                  => (new = full /\ validation_results \subseteq validation_results')
            /\ \A fail_at \in FailPoints :
                   validate_upload_failing(u, industry, fail_at)
                       => /\ new = full \/ new = {}
                          /\ fail_at = "evaluate" => new = {}
                          /\ validation_results \subseteq validation_results']_vars

\* A call that returned after persisting outcomes of two indicator groups
C15_Witness ==
    /\ last = Call("validate_upload", "ok", 1)
    /\ Cardinality(validation_results) = 3
    /\ \E o1, o2 \in validation_results :
           \E r1, r2 \in normalized_data :
               /\ r1.id = o1.data_id
               /\ r2.id = o2.data_id
               /\ r1.indicator # r2.indicator

\* The measurements of an upload with those of the indicators other than
\* `indicator` altered: alter[i] removes record i, keeps it, or sets its
\* value
Altered(records, indicator, alter) ==
    Flatten([i \in 1..Len(records) |->
        IF records[i].indicator = indicator \/ alter[i].op = "keep"
        THEN <<records[i]>>
        ELSE IF alter[i].op = "drop" THEN <<>>
        ELSE <<[records[i] EXCEPT !.value = alter[i].value]>>])

Alterations(records) ==
    [1..Len(records) ->
        {[op |-> "keep", value |-> 0], [op |-> "drop", value |-> 0]}
            \cup {[op |-> "set", value |-> v] : v \in Values}]

\* The outcomes for the records of one indicator, as persisted
OutcomesFor(results, records, indicator) ==
    LET ids == {records[i].id : i \in {j \in 1..Len(records) :
                                          records[j].indicator = indicator}}
    IN SelectSeq([i \in 1..Len(results) |->
                      <<results[i].data_id, results[i].rule_name,
                        results[i].severity>>],
                 LAMBDA o : o[1] \in ids)

PersistedFor(rows, records, indicator) ==
    {<<o.data_id, o.rule_name, o.severity>> :
         o \in {x \in rows : \E i \in 1..Len(records) :
                                 /\ records[i].id = x.data_id
                                 /\ records[i].indicator = indicator}}

\* C16: the outcomes validate_upload persists for the records of one
\* indicator are those it would persist after any change, addition or
\* removal of measurements of the other indicators of the upload
C16_ScopedWithinIndicator ==
    [][\A u \in Uploads, industry \in Industries :
         (validate_upload(u, industry) /\ last'.status = "ok") =>
             LET records == RowsById(NormalizedOf(u))
                 new == validation_results' \ validation_results
             IN \A indicator \in Indicators, alter \in Alterations(records) :
                    LET other == OutcomesFor(
                                     validation_results_of(
                                         Altered(records, indicator, alter),
                                         industry),
                                     records, indicator)
                    IN PersistedFor(new, records, indicator)
                           = {other[k] : k \in 1..Len(other)}]_vars

\* A run persisted an outlier outcome for a scope_1 record of an upload
\* that also holds a measurement of total
C16_Witness ==
    /\ last = Call("validate_upload", "ok", 1)
    /\ \E o \in validation_results, r \in normalized_data :
           /\ o.rule_name = "statistical_outlier"
           /\ r.id = o.data_id
           /\ r.indicator = "scope_1"
    /\ \E r \in normalized_data : r.upload_id = 1 /\ r.indicator = "total"

\* ------------------------------------------------------------------------
\* Properties of the conversion factors
\* ------------------------------------------------------------------------
\* Equality and product of fractions <<numerator, denominator>>
SameFraction(p, q) == p[1] * q[2] = q[1] * p[2]
Times(p, q) == <<p[1] * q[1], p[2] * q[2]>>

\* Two units the taxonomy puts in one category
SameCategory(a, b) ==
    /\ a \in KnownUnits
    /\ b \in KnownUnits
    /\ unit_lookup[a].category = unit_lookup[b].category

\* The stored factor of a unit to the base unit of its category is linear
Linear(unit) ==
    \/ unit = unit_lookup[unit].base_unit
    \/ FactorOf(unit_lookup[unit].category, unit) # <<>>

\* The value times the factor from its unit to the unit of the result is
\* the normalized value, for every call of normalize that succeeds
RoundTrip ==
    \A v \in UnitValues, u \in KnownUnits :
        LET result == normalize(v, u, None)
        IN result.status = "ok" =>
               LET back == get_conversion_factor(u, result.normalized_unit)
               IN /\ back.status = "ok"
                  /\ SameFraction(Times(<<v, 1>>, back.factor),
                                  result.normalized_value)

Inverse(a, b) ==
    /\ get_conversion_factor(a, b).status = "ok"
    /\ get_conversion_factor(b, a).status = "ok"
    /\ SameFraction(Times(get_conversion_factor(a, b).factor,
                          get_conversion_factor(b, a).factor), <<1, 1>>)

\* C21 as stated: the round trip reproduces the normalized value, and
\* the factors a -> b and b -> a of any two units of one category
\* multiply to 1
C21_RoundTrip ==
    /\ RoundTrip
    /\ \A a \in KnownUnits, b \in KnownUnits : SameCategory(a, b) => Inverse(a, b)
    /\ (returned.call = "get_conversion_factor"
        /\ SameCategory(returned.args[1], returned.args[2]))
           => /\ returned.result.status = "ok"
              /\ Inverse(returned.args[1], returned.args[2])

\* C21 amended: the round trip reproduces the normalized value; the
\* factors a -> b and b -> a of two units of one category whose stored
\* factors are linear multiply to 1; a factor between two different units
\* of which one is non-linear is refused with InvalidValueError
C21_RoundTripLinear ==
    /\ RoundTrip
    /\ \A a \in KnownUnits, b \in KnownUnits :
           SameCategory(a, b) =>
               IF Linear(a) /\ Linear(b) THEN Inverse(a, b)
               ELSE a # b =>
                       get_conversion_factor(a, b) = Raise("InvalidValueError")
    /\ (returned.call = "get_conversion_factor"
        /\ SameCategory(returned.args[1], returned.args[2])
        /\ Linear(returned.args[1]) /\ Linear(returned.args[2]))
           => /\ returned.result.status = "ok"
              /\ Inverse(returned.args[1], returned.args[2])

\* The composite factor from kWh to GJ, neither of them the base unit,
\* has been returned: (1/1000) / (5/18)
C21_Witness ==
    /\ returned.call = "get_conversion_factor"
    /\ returned.args = <<"kWh", "GJ">>
    /\ returned.result.status = "ok"
    /\ SameFraction(returned.result.factor, <<18, 5000>>)

\* ------------------------------------------------------------------------
\* Calls of the ValidationEngine on records and samples of their own
\* ------------------------------------------------------------------------
EngineIndicators == Indicators \cup {"scope_2"}
EngineValues == 0..5
EngineIds == 1..3

EngineRecord(id, indicator, value) ==
    [id |-> id, indicator |-> indicator, value |-> value]

RuleNames(rule_list) == [i \in 1..Len(rule_list) |-> rule_list[i].rule_name]

call_validate_record(record, industry) ==
    /\ returned' = [call |-> "validate_record",
                    args |-> <<record, industry>>,
                    evaluated |-> RuleNames(applicable_rules(industry,
                                                             record.indicator)),
                    result |-> validate_record(record, industry)]
    /\ UNCHANGED <<normalized_data, validation_results, audit_log, pending,
                   next_result_id, last, requests>>

\* The outlier rule with z_score_threshold = num / den
OutlierRule(num, den) ==
    Rule("cross_industry", "statistical_outlier", "", "outlier", "warning",
         Params(<<>>, <<>>, num, den, <<>>, 0, 1, None))

\* Sample lists handed to outlier_detection, the data_id of a sample being
\* its position, and the thresholds of the rule
SampleLists ==
    {<<100, 105, 98, 102, 1000, 99>>, <<100, 105, 98, 102, 500>>}
        \cup UNION {[1..n -> Values] : n \in 0..4}
Thresholds == {<<3, 1>>, <<2, 1>>, <<5, 4>>, <<1, 1>>}

call_outlier_detection(samples, threshold) ==
    /\ returned' = [call |-> "outlier_detection",
                    args |-> <<samples, threshold>>,
                    result |-> outlier_detection(
                                   [i \in 1..Len(samples) |-> <<i, samples[i]>>],
                                   OutlierRule(threshold[1], threshold[2]))]
    /\ UNCHANGED <<normalized_data, validation_results, audit_log, pending,
                   next_result_id, last, requests>>

\* The temporal rule with tolerance = num / den
TemporalRule(num, den) ==
    Rule("cross_industry", "monthly_sum_equals_annual", "", "temporal", "error",
         Params(<<>>, <<>>, 0, 1, <<>>, num, den, None))

\* ValidationEngine.temporal_consistency; annual_total is the fraction
\* annual_total[1] / annual_total[2] with a positive denominator
temporal_consistency(monthly_data, annual_total, rule, data_id) ==
    LET monthly_sum == SumSeq(monthly_data)
        tn == rule.parameters.tol_num
        td == rule.parameters.tol_den
        an == annual_total[1]
        ad == annual_total[2]
        \* diff_pct > tolerance, with diff_pct = abs(monthly_sum) / 1.0 or
        \* abs(monthly_sum - annual_total) / annual_total
        exceeds == IF an = 0 THEN Abs(monthly_sum) * td > tn
                   ELSE IF an > 0
                        THEN Abs(monthly_sum * ad - an) * td > tn * an
                        ELSE Abs(monthly_sum * ad - an) * td < tn * an
    IN IF monthly_data = <<>> THEN <<>>
       ELSE IF exceeds THEN <<Failure(data_id, rule)>>
       ELSE <<>>

\* Twelve monthly values, or none, and the annual totals and tolerances
\* they are checked against
MonthlyLists ==
    {<<>>,
     [m \in 1..12 |-> 0], [m \in 1..12 |-> 1], [m \in 1..12 |-> 1000],
     [m \in 1..12 |-> IF m = 12 THEN 990 ELSE 1000],
     [m \in 1..12 |-> IF m > 10 THEN 0 ELSE 1000]}
AnnualTotals ==
    {<<12000, 1>>, <<12, 1>>, <<0, 1>>, <<1, 2>>, <<-1, 2>>, <<-12, 1>>,
     <<-12000, 1>>}
Tolerances == {<<2, 100>>, <<0, 1>>}

call_temporal_consistency(monthly_data, annual_total, tolerance) ==
    /\ returned' = [call |-> "temporal_consistency",
                    args |-> <<monthly_data, annual_total, tolerance>>,
                    result |-> temporal_consistency(
                                   monthly_data, annual_total,
                                   TemporalRule(tolerance[1], tolerance[2]), 1)]
    /\ UNCHANGED <<normalized_data, validation_results, audit_log, pending,
                   next_result_id, last, requests>>

\* The sum rule over fields with tolerance = num / den
SumRule(fields, num, den) ==
    Rule("cross_field", "scope_sum", "", "cross_field", "error",
         Params(<<>>, <<>>, 0, 1, fields, num, den, "sum"))

ScopeFields == <<"scope_1", "scope_2", "scope_3", "total">>

\* An entity snapshot: at most one record per indicator of ScopeFields,
\* present[k] being <<>> or <<value>> for the k-th field
Snapshot(present) ==
    LET held == SelectSeq([k \in 1..Len(ScopeFields) |-> k],
                          LAMBDA k : present[k] # <<>>)
    IN [i \in 1..Len(held) |->
           EngineRecord(held[i], ScopeFields[held[i]], present[held[i]][1])]

Snapshots ==
    {Snapshot(<<s1, s2, s3, t>>) :
        s1 \in {<<>>, <<100>>, <<0>>}, s2 \in {<<>>, <<50>>},
        s3 \in {<<>>, <<30>>},
        t \in {<<>>, <<180>>, <<200>>, <<0>>, <<-180>>}}

call_validate_sum_relationship(records, tolerance) ==
    /\ returned' = [call |-> "_validate_sum_relationship",
                    args |-> <<records, tolerance>>,
                    result |-> _validate_sum_relationship(
                                   records,
                                   SumRule(ScopeFields, tolerance[1],
                                           tolerance[2]))]
    /\ UNCHANGED <<normalized_data, validation_results, audit_log, pending,
                   next_result_id, last, requests>>

NextEngine ==
    \/ \E id \in EngineIds, ind \in EngineIndicators, v \in EngineValues,
          industry \in Industries :
           call_validate_record(EngineRecord(id, ind, v), industry)
    \/ \E records \in Snapshots, tolerance \in Tolerances :
           call_validate_sum_relationship(records, tolerance)
    \/ \E samples \in SampleLists, threshold \in Thresholds :
           call_outlier_detection(samples, threshold)
    \/ \E monthly_data \in MonthlyLists, annual_total \in AnnualTotals,
          tolerance \in Tolerances :
           call_temporal_consistency(monthly_data, annual_total, tolerance)

SpecEngine == Init /\ [][NextEngine]_vars

\* The names of the industry's rules for the indicator and of its rules
\* without an indicator
OwnRuleNames(industry, indicator) ==
    {RuleList[i].rule_name : i \in {j \in 1..Len(RuleList) :
         /\ RuleList[j].bucket = industry
         /\ RuleList[j].indicator \in {indicator, ""}}}

Defines(industry) == \E i \in 1..Len(RuleList) : RuleList[i].bucket = industry

\* C22: validate_record evaluates the industry's rules for the record's
\* indicator and its rules without an indicator, each exactly once, and
\* the rules of cross_industry instead only if the industry defines no rule
C22_ApplicableRules ==
    returned.call = "validate_record" =>
        LET industry == returned.args[2]
            indicator == returned.args[1].indicator
            evaluated == returned.evaluated
        IN /\ \A i, j \in 1..Len(evaluated) :
                  evaluated[i] = evaluated[j] => i = j
           /\ {evaluated[i] : i \in 1..Len(evaluated)} =
                  IF Defines(industry) THEN OwnRuleNames(industry, indicator)
                  ELSE OwnRuleNames("cross_industry", indicator)

\* The positions of the samples outlier_detection flagged
FlaggedSamples == {returned.result[i].data_id : i \in 1..Len(returned.result)}

\* C23: for the samples [100, 105, 98, 102, 1000, 99] and a threshold of
\* 3.0 the outlier check flags exactly the sample 1000, the fifth
C23_FlagsExactly1000 ==
    (/\ returned.call = "outlier_detection"
     /\ returned.args = <<<<100, 105, 98, 102, 1000, 99>>, <<3, 1>>>>)
        => FlaggedSamples = {5}

\* The samples whose distance from the mean, over the population standard
\* deviation, exceeds num / den: with s the sum and q the sum of squares of
\* the n samples, (n v - s)^2 / (n q - s^2) > (num / den)^2
PopulationOutliers(samples, num, den) ==
    LET n == Len(samples)
        s == SumSeq(samples)
        q == SumSeq([i \in 1..n |-> samples[i] * samples[i]])
    IN IF n < 3 \/ n * q - s * s = 0 THEN {}
       ELSE {i \in 1..n :
                (n * samples[i] - s) * (n * samples[i] - s) * den * den
                    > num * num * (n * q - s * s)}

\* C24: outlier_detection flags nothing for fewer than 3 samples or a
\* standard deviation of 0, and otherwise exactly the samples whose
\* |value - mean| / stdev exceeds the threshold, mean and stdev being those
\* of the population
C24_PopulationZScore ==
    returned.call = "outlier_detection" =>
        FlaggedSamples = PopulationOutliers(returned.args[1],
                                            returned.args[2][1],
                                            returned.args[2][2])

\* |sum - total| / max(|total|, 1) > num / den, for a total given as the
\* fraction total[1] / total[2] with a positive denominator
ExceedsTolerance(sum, total, num, den) ==
    IF Abs(total[1]) >= total[2]
    THEN Abs(sum * total[2] - total[1]) * den > num * Abs(total[1])
    ELSE Abs(sum * total[2] - total[1]) * den > num * total[2]

\* C25: the temporal check fails exactly when
\* |sum of the monthly values - annual| / max(|annual|, 1) exceeds the
\* tolerance, for every annual total: zero, negative, fractional
C25_TemporalTolerance ==
    (returned.call = "temporal_consistency" /\ returned.args[1] # <<>>) =>
        (returned.result # <<>>) =
            ExceedsTolerance(SumSeq(returned.args[1]), returned.args[2],
                             returned.args[3][1], returned.args[3][2])

\* The values a snapshot holds for the fields of a list
ValuesOf(records, fields) ==
    LET held == SelectSeq(records, LAMBDA r : InSeq(r.indicator, fields))
    IN [i \in 1..Len(held) |-> held[i].value]

\* C26: the sum rule takes the last field as the total and the others as
\* components and fails exactly when
\* |sum of the components - total| / max(|total|, 1) > tolerance
C26_SumRule ==
    returned.call = "_validate_sum_relationship" =>
        LET records == returned.args[1]
            components == ValuesOf(records, SubSeq(ScopeFields, 1,
                                                   Len(ScopeFields) - 1))
            total == ValuesOf(records, <<ScopeFields[Len(ScopeFields)]>>)
        IN (returned.result # <<>>) =
               (/\ total # <<>>
                /\ ExceedsTolerance(SumSeq(components), <<total[1], 1>>,
                                    returned.args[2][1], returned.args[2][2]))

\* The component measurements of an upload sum exactly to its one
\* measurement of the total, for the fields of a sum rule
SumAgrees(upload_id, rule) ==
    LET fields == rule.parameters.fields
        records == RowsById(NormalizedOf(upload_id))
        components == ValuesOf(records, SubSeq(fields, 1, Len(fields) - 1))
        total == ValuesOf(records, <<fields[Len(fields)]>>)
    IN /\ Len(total) = 1
       /\ components # <<>>
       /\ SumSeq(components) = total[1]

\* C27: an upload whose component measurements sum exactly to its total
\* measurement has no outcome of the sum rule persisted by validate_upload
C27_NoSumOutcomeWhenEqual ==
    \A u \in Uploads :
        \A i \in 1..Len(rules("cross_field")) :
            SumAgrees(u, rules("cross_field")[i]) =>
                ~\E o \in JoinUpload(validation_results, u) :
                      o.rule_name = rules("cross_field")[i].rule_name


\* C28: the summary of every normalize_data run that returns satisfies
\* total_records = successfully_normalized + failed_normalization
C28_SummaryAdds ==
    returned.call = "normalize_data" /\ returned.status = "ok" =>
        returned.result.total_records =
            returned.result.successfully_normalized
                + returned.result.failed_normalization


\* The step is a call of a single-outcome reviewer action on result_id
ReviewStep(result_id) ==
    /\ last'.op \in {"mark_error_as_reviewed", "suppress_warning"}
    /\ last'.target = result_id

\* The fields of an outcome a reviewer action does not write
KeepsIdentity(o, p) ==
    /\ p.id = o.id
    /\ p.severity = o.severity
    /\ p.rule_name = o.rule_name
    /\ p.data_id = o.data_id
    /\ p.is_valid = o.is_valid

\* C29: a successful mark_error_as_reviewed or suppress_warning on an
\* outcome changes only the reviewed flag and reviewer_notes of that outcome:
\* every other outcome, the other fields of the target and every normalized
\* measurement stay as they were; a call with an id that does not exist
\* raises ValueError and changes nothing
C29_TouchesOnlyTarget ==
    [][\A id \in KnownResultIds :
           ReviewStep(id) =>
               /\ normalized_data' = normalized_data
               /\ next_result_id' = next_result_id
               /\ {o \in validation_results' : o.id # id}
                      = {o \in validation_results : o.id # id}
               /\ \A o \in validation_results : o.id = id =>
                      \E p \in validation_results' : KeepsIdentity(o, p)
               /\ \A p \in validation_results' : p.id = id =>
                      \E o \in validation_results : KeepsIdentity(o, p)
               /\ last'.status = "ok" =>
                      \E p \in validation_results' : p.id = id /\ p.reviewed
               /\ (~\E o \in validation_results : o.id = id) =>
                      /\ last'.status = "ValueError"
                      /\ validation_results' = validation_results
                      /\ audit_log' = audit_log]_vars

\* A reviewer action succeeded on one of several outcomes and the others
\* are still unreviewed
C29_Witness ==
    /\ last.op \in {"mark_error_as_reviewed", "suppress_warning"}
    /\ last.status = "ok"
    /\ \E p \in validation_results : p.id = last.target /\ p.reviewed
    /\ \E q \in validation_results : q.id # last.target /\ ~q.reviewed


\* ------------------------------------------------------------------------
\* Reviewer actions with a failing step: the commit of the reviewed flag
\* and the commit of the audit trail are two transactions
\* ------------------------------------------------------------------------
ReviewFailPoints == {"commit", "audit"}
MaxUnaudited == 1
MaxFailingRecords == 2

\* Outcomes whose reviewed flag is committed without an audit_log entry
Unaudited ==
    {o \in validation_results :
        /\ o.reviewed
        /\ ~\E e \in BagToSet(audit_log) :
               e.entity_type = "validation_result" /\ e.entity_id = o.id}

\* mark_error_as_reviewed raising at fail_at: at "commit" the UPDATE is
\* rolled back, at "audit" the UPDATE is already committed
mark_error_as_reviewed_failing(result_id, reviewer, notes, fail_at) ==
    /\ \E o \in View : o.id = result_id
    /\ validation_results' =
           IF fail_at = "audit"
           THEN Marked([vr |-> View, al |-> audit_log],
                       result_id, reviewer, notes).vr
           ELSE validation_results
    /\ fail_at = "audit" => Cardinality(Unaudited) + 1 <= MaxUnaudited
    /\ pending' = IF fail_at = "audit" THEN {} ELSE pending
    /\ last' = Call("mark_error_as_reviewed", "Exception", result_id)
    /\ UNCHANGED <<normalized_data, audit_log, next_result_id>>

\* suppress_warning raising at fail_at
suppress_warning_failing(result_id, reason, reviewer, fail_at) ==
    /\ \E o \in View : o.id = result_id /\ o.severity # "error"
    /\ validation_results' =
           IF fail_at = "audit"
           THEN Marked([vr |-> View, al |-> audit_log],
                       result_id, reviewer, Suppressed(reason)).vr
           ELSE validation_results
    /\ fail_at = "audit" => Cardinality(Unaudited) + 1 <= MaxUnaudited
    /\ pending' = IF fail_at = "audit" THEN {} ELSE pending
    /\ last' = Call("suppress_warning", "Exception", result_id)
    /\ UNCHANGED <<normalized_data, audit_log, next_result_id>>

NextReviewFailing ==
    \/ \E id \in KnownResultIds, rv \in Reviewers, n \in Notes :
           mark_error_as_reviewed(id, rv, n) /\ UNCHANGED ServiceFrame
    \/ \E id \in KnownResultIds, rs \in Reasons, rv \in Reviewers :
           suppress_warning(id, rs, rv) /\ UNCHANGED ServiceFrame
    \/ \E ids \in IdLists, rv \in Reviewers, n \in Notes :
           bulk_review_errors(ids, rv, n) /\ UNCHANGED ServiceFrame
    \/ \E id \in KnownResultIds, rv \in Reviewers, n \in Notes :
           \E fail_at \in ReviewFailPoints :
               mark_error_as_reviewed_failing(id, rv, n, fail_at)
               /\ UNCHANGED ServiceFrame
    \/ \E id \in KnownResultIds, rs \in Reasons, rv \in Reviewers :
           \E fail_at \in ReviewFailPoints :
               suppress_warning_failing(id, rs, rv, fail_at)
               /\ UNCHANGED ServiceFrame

\* the stores of InitReview with at most MaxFailingRecords measurements
InitReviewFailing ==
    /\ InitReview
    /\ Cardinality(normalized_data) <= MaxFailingRecords

SpecReviewFailing == InitReviewFailing /\ [][NextReviewFailing]_vars

\* C30: in every committed state every outcome with reviewed = true has an
\* audit_log entry of entity_type "validation_result" with the outcome's id
C30_ReviewedIsAudited == Unaudited = {}

====
